---- MODULE Spec2Model ----
(***************************************************************************)
(* Tick-accurate model of the stack machine of csa_lab_4_v2:               *)
(*   src/isa.py            instruction set, encode and decode              *)
(*   src/translator/cli.py main (the binary the translator writes)         *)
(*   src/core/datapath.py  DataPath  (stack, AR, single-port memory, ALU)  *)
(*   src/core/io.py        IOController (port queues, schedule, IRQ latch) *)
(*   src/core/cpu.py       CPU.step_tick (micro-sequencer, interrupts)     *)
(*   src/core/runner.py    run_machine (the loop that calls step_tick)     *)
(*                                                                         *)
(* Python's None is modelled by the empty sequence and a present value v   *)
(* by <<v>>; a dict is a function whose DOMAIN is its key set; a list is a *)
(* sequence (Python index i is TLA+ index i+1).  Machine words are         *)
(* WordBits wide: x & 0xFFFF_FFFF is x % TwoW and x & 0x8000_0000 # 0 is   *)
(* (x % TwoW) >= SignBit.  TLC's integers are 32 bits wide, so WordBits is *)
(* a bound of the model rather than the source's 32.                       *)
(***************************************************************************)
EXTENDS Integers, Sequences, FiniteSets, TLC

VARIABLES
    prog,          \* translator/cli.py: the Program the parser returned
    cg,            \* translator/cli.py: the Codegen object (a record of its fields)
    code,          \* translator/cli.py: the instruction list given to encode
    blob,          \* the bytes of the binary file
    imem,          \* CPU.imem: the instruction list (immutable after load)
    schedule,      \* the list of IOEvent given to IOController.__init__
    dp,            \* CPU.dp: the DataPath object (a record of its fields)
    io,            \* CPU.io: the IOController object (a record of its fields)
    rs,            \* CPU.rs: return stack
    pc,            \* CPU.pc
    ir,            \* CPU.ir: <<>> (None) or <<instr>>
    tick,          \* CPU.tick
    tick_limit,    \* CPU.tick_limit
    int_enabled,   \* CPU.int_enabled
    in_isr,        \* CPU.in_isr
    phase,         \* CPU._phase
    step,          \* CPU._step
    halted,        \* CPU._halted
    last_pc,       \* CPU.last_pc
    last_ir,       \* CPU.last_ir
    tmp_addr,      \* CPU._tmp_addr
    tmp_val,       \* CPU._tmp_val
    tmp_alu,       \* CPU._tmp_alu
    err,           \* the exception that left step_tick ("none" while running)
    did,           \* observation: the branch of step_tick taken by the last call
    fetch_tick,    \* observation: the tick on which ir was fetched
    trace,         \* run_machine: the trace argument
    trace_out,     \* run_machine: the lines written to trace_file
    at_irq,        \* observation: what the last dispatch pre-empted (<<>> before it)
    armed_at       \* observation: the tick since which int_enabled and not in_isr hold

vars == <<prog, cg, code, blob, imem, schedule, tick_limit, dp, io, rs, pc, ir,
          tick, int_enabled, in_isr, phase, step, halted, last_pc, last_ir,
          tmp_addr, tmp_val, tmp_alu, err, did, fetch_tick, trace, trace_out, at_irq,
          armed_at>>

----------------------------------------------------------------------------
(* Bounds of the model *)

\* width of a machine word in bits (the source masks with 0xFFFF_FFFF)
WordBits == 6
\* tick_limit of the run (runner.py: while cpu.tick < cpu.tick_limit)
TickLimit == 14
\* data_words given to DataPath.__init__
DataWords == 2
\* the longest schedule
MaxEvents == 2
\* the latest tick an event is scheduled for
MaxEvTick == 3

TwoW == 2 ^ WordBits
SignBit == 2 ^ (WordBits - 1)
Mask(x) == x % TwoW

\* isa.py Port: the two ports the model's programs and schedules use
CH == 1
D == 2
Ports == {CH, D}

None == <<>>
Some(x) == <<x>>

RECURSIVE Zeros(_)
Zeros(n) == IF n <= 0 THEN <<>> ELSE Append(Zeros(n - 1), 0)

Max(a, b) == IF a >= b THEN a ELSE b

----------------------------------------------------------------------------
(* isa.py *)

Opcodes == {"NOP", "PUSHI", "LOAD", "STORE", "DUP", "DROP", "SWAP",
            "ADD", "SUB", "MUL", "DIV", "LE",
            "JMP", "JZ", "CALL", "RET", "IRET", "EI", "DI",
            "IN", "OUT", "HALT"}

AluOps == {"ADD", "SUB", "MUL", "DIV", "LE"}

Instr(op, a) == [opcode |-> op, arg |-> a]
I0(op) == Instr(op, 0)

\* int(opcode): the values of the Opcode enum
OpcodeValue(op) ==
    CASE op = "NOP" -> 0    [] op = "PUSHI" -> 1  [] op = "LOAD" -> 2
      [] op = "STORE" -> 3  [] op = "DUP" -> 4    [] op = "DROP" -> 5
      [] op = "SWAP" -> 6   [] op = "ADD" -> 16   [] op = "SUB" -> 17
      [] op = "MUL" -> 18   [] op = "DIV" -> 19   [] op = "LE" -> 65
      [] op = "JMP" -> 32   [] op = "JZ" -> 33    [] op = "CALL" -> 34
      [] op = "RET" -> 35   [] op = "IRET" -> 36  [] op = "EI" -> 37
      [] op = "DI" -> 38    [] op = "IN" -> 48    [] op = "OUT" -> 49
      [] op = "HALT" -> 255

\* Opcode(value): the member of the enum with that value
OpcodeOf(value) == CHOOSE op \in Opcodes : OpcodeValue(op) = value

\* the masks and shifts of encode and decode
ByteSize == 256
ArgSize == 16777216
ArgSignBit == 8388608

\* a 32-bit word is kept as its top byte (hi) and its low 24 bits (lo)
Word(hi, lo) == [hi |-> hi, lo |-> lo]

\* ((int(ins.opcode) & 0xFF) << 24) | (ins.arg & 0x00FF_FFFF)
encode_word(ins) == Word(OpcodeValue(ins.opcode) % ByteSize, ins.arg % ArgSize)

\* (word & 0xFF, (word >> 8) & 0xFF, (word >> 16) & 0xFF, (word >> 24) & 0xFF)
word_bytes(w) ==
    <<w.lo % ByteSize, (w.lo \div ByteSize) % ByteSize,
      (w.lo \div (ByteSize * ByteSize)) % ByteSize, w.hi % ByteSize>>

RECURSIVE encode(_)
encode(instrs) ==
    IF instrs = <<>> THEN <<>>
    ELSE word_bytes(encode_word(Head(instrs))) \o encode(Tail(instrs))

\* blob[i] | (blob[i + 1] << 8) | (blob[i + 2] << 16) | (blob[i + 3] << 24)
bytes_word(b) == Word(b[4], b[1] + b[2] * ByteSize + b[3] * ByteSize * ByteSize)

\* mutant of decode_word: the PUSHI immediate is not sign-extended
decode_word_unsigned(w) == Instr(OpcodeOf(w.hi % ByteSize), w.lo % ArgSize)

\* the body of the loop of decode, for one word
decode_word(w) ==
    LET opcode == OpcodeOf(w.hi % ByteSize)
        arg == w.lo % ArgSize
    IN Instr(opcode, IF opcode = "PUSHI" /\ arg >= ArgSignBit
                     THEN arg - ArgSize ELSE arg)

\* the loop stops at a trailing partial word (i + 3 >= len(blob))
RECURSIVE decode(_)
decode(b) ==
    IF Len(b) < 4 THEN <<>>
    ELSE <<decode_word(bytes_word(SubSeq(b, 1, 4)))>>
         \o decode(SubSeq(b, 5, Len(b)))

----------------------------------------------------------------------------
(* core/datapath.py *)

DataPathInit(data_words) ==
    [mem |-> Zeros(Max(1, data_words)), stack |-> <<>>, t |-> 0, s |-> 0,
     ar |-> 0, io_reg |-> 0, zero |-> TRUE, sign |-> FALSE,
     last_mem_read |-> 0, last_mem_write |-> 0, last_alu |-> 0,
     mem_access |-> "none"]

\* mutant of tick_begin: the per-tick access flag is not cleared
tick_begin_keeping_flag(d) == d

tick_begin(d) == [d EXCEPT !.mem_access = "none"]

\* mutant of refresh_tz: T and S are refreshed, the flags are not
refresh_tz_keeping_flags(d) ==
    LET n == Len(d.stack)
    IN [d EXCEPT !.t = IF n >= 1 THEN Mask(d.stack[n]) ELSE 0,
                 !.s = IF n >= 2 THEN Mask(d.stack[n - 1]) ELSE 0]

refresh_tz(d) ==
    LET n == Len(d.stack)
        t == IF n >= 1 THEN Mask(d.stack[n]) ELSE 0
        s == IF n >= 2 THEN Mask(d.stack[n - 1]) ELSE 0
    IN [d EXCEPT !.t = t, !.s = s,
                 !.zero = (Mask(t) = 0),
                 !.sign = (Mask(t) >= SignBit)]

\* mutant of data_push: the pushed value is not masked
data_push_unmasked(d, value) == refresh_tz([d EXCEPT !.stack = Append(@, value)])

data_push(d, value) == refresh_tz([d EXCEPT !.stack = Append(@, Mask(value))])

\* data_pop returns the popped value (v) and the datapath after the pop (d)
data_pop(d) ==
    LET n == Len(d.stack)
    IN [v |-> IF n >= 1 THEN d.stack[n] ELSE 0,
        d |-> refresh_tz([d EXCEPT !.stack =
                             IF n >= 1 THEN SubSeq(@, 1, n - 1) ELSE @])]

\* mutant of latch_t_push: the ALU result is pushed without refreshing T, S
\* and the flags
latch_t_push_stale(d, source, value) ==
    CASE source = "lit" -> data_push(d, value)
      [] source = "mem" -> data_push(d, d.last_mem_read)
      [] source = "alu" -> [d EXCEPT !.stack = Append(@, Mask(d.last_alu))]
      [] source = "io"  -> data_push(d, d.io_reg)

latch_t_push(d, source, value) ==
    CASE source = "lit" -> data_push(d, value)
      [] source = "mem" -> data_push(d, d.last_mem_read)
      [] source = "alu" -> data_push(d, d.last_alu)
      [] source = "io"  -> data_push(d, d.io_reg)

latch_ar_from_t(d) == [d EXCEPT !.ar = Mask(d.t)]

latch_ar_from_lit(d, addr) == [d EXCEPT !.ar = Mask(addr)]

\* the assertion at the head of dm_read and dm_write
dm_conflict(d) == d.mem_access # "none"

\* mutant of mem_extend: a memory that is too short is replaced by zeros
mem_extend_clearing(mem, idx) ==
    IF idx >= Len(mem) THEN Zeros(idx + 1) ELSE mem

\* self.mem.extend([0] * (idx - len(self.mem) + 1)) when idx >= len(self.mem)
mem_extend(mem, idx) ==
    IF idx >= Len(mem) THEN mem \o Zeros(idx - Len(mem) + 1) ELSE mem

dm_read(d) ==
    LET m == mem_extend(d.mem, d.ar)
    IN [d EXCEPT !.mem = m,
                 !.last_mem_read = Mask(m[d.ar + 1]),
                 !.mem_access = "r"]

dm_write(d, value) ==
    LET m == mem_extend(d.mem, d.ar)
    IN [d EXCEPT !.last_mem_write = Mask(value),
                 !.mem = [m EXCEPT ![d.ar + 1] = Mask(value)],
                 !.mem_access = "w"]

latch_io_write_prepare(d, value) == [d EXCEPT !.io_reg = Mask(value)]

\* mutant of alu_result: the operands are taken in the other order
alu_result_swapped(op, a, b) ==
    CASE op = "ADD" -> Mask(b + a)
      [] op = "SUB" -> Mask(b - a)
      [] op = "MUL" -> Mask(b * a)
      [] op = "DIV" -> IF a # 0 THEN Mask(b \div a) ELSE 0
      [] op = "LE"  -> IF b <= a THEN 1 ELSE 0

\* mutant of alu_result: a zero divisor gives the all-ones word
alu_result_div_ones(op, a, b) ==
    CASE op = "ADD" -> Mask(a + b)
      [] op = "SUB" -> Mask(a - b)
      [] op = "MUL" -> Mask(a * b)
      [] op = "DIV" -> IF b # 0 THEN Mask(a \div b) ELSE TwoW - 1
      [] op = "LE"  -> IF a <= b THEN 1 ELSE 0

alu_result(op, a, b) ==
    CASE op = "ADD" -> Mask(a + b)
      [] op = "SUB" -> Mask(a - b)
      [] op = "MUL" -> Mask(a * b)
      [] op = "DIV" -> IF b # 0 THEN Mask(a \div b) ELSE 0
      [] op = "LE"  -> IF a <= b THEN 1 ELSE 0

alu_compute(d, op) ==
    LET r == alu_result(op, Mask(d.s), Mask(d.t))
    IN [d EXCEPT !.last_alu = r,
                 !.zero = (Mask(r) = 0),
                 !.sign = (Mask(r) >= SignBit)]

----------------------------------------------------------------------------
(* core/io.py *)

Event(t, p, v) == [tick |-> t, port |-> p, value |-> v]

\* dict.get(k, []) and dict.setdefault(k, []).append(v)
DictGet(dict, k) == IF k \in DOMAIN dict THEN dict[k] ELSE <<>>
DictAppend(dict, k, v) ==
    [x \in (DOMAIN dict) \cup {k} |->
        IF x = k THEN Append(DictGet(dict, k), v) ELSE dict[x]]

IOControllerInit ==
    [in_queues |-> <<>>, out_queues |-> <<>>, pending_irq |-> None]

\* self._schedule.get(t, []): __init__ groups the events by tick, in list order
schedule_get(sched, t) == SelectSeq(sched, LAMBDA ev : ev.tick = t)

\* mutant of on_tick_event: a new event overwrites the latch
on_tick_event_overwriting(c, ev) ==
    [c EXCEPT !.in_queues = DictAppend(@, ev.port, ev.value),
              !.pending_irq = Some(ev.port)]

\* mutant of on_tick_event: the value is enqueued only when the latch is empty
on_tick_event_dropping(c, ev) ==
    IF c.pending_irq = None
    THEN [c EXCEPT !.in_queues = DictAppend(@, ev.port, ev.value),
                   !.pending_irq = Some(ev.port)]
    ELSE c

\* the body of the loop of on_tick, for one event
on_tick_event(c, ev) ==
    [c EXCEPT !.in_queues = DictAppend(@, ev.port, ev.value),
              !.pending_irq = IF @ = None THEN Some(ev.port) ELSE @]

RECURSIVE on_tick_loop(_, _)
on_tick_loop(c, evs) ==
    IF evs = <<>> THEN c
    ELSE on_tick_loop(on_tick_event(c, Head(evs)), Tail(evs))

\* mutant of on_tick: the events of a tick are delivered one tick late
on_tick_late(c, sched, t) == on_tick_loop(c, schedule_get(sched, t - 1))

on_tick(c, sched, t) == on_tick_loop(c, schedule_get(sched, t))

irq_pending(c) == c.pending_irq

ack_irq(c) == [c EXCEPT !.pending_irq = None]

\* mutant of read_port: the queue is read from its other end
read_port_newest(c, port) ==
    LET q == DictGet(c.in_queues, port)
    IN IF q = <<>> THEN [v |-> 0, c |-> c]
       ELSE [v |-> q[Len(q)],
             c |-> [c EXCEPT !.in_queues =
                       [@ EXCEPT ![port] = SubSeq(q, 1, Len(q) - 1)]]]

\* read_port returns the value read (v) and the controller after the read (c)
read_port(c, port) ==
    LET q == DictGet(c.in_queues, port)
    IN IF q = <<>> THEN [v |-> 0, c |-> c]
       ELSE [v |-> Head(q),
             c |-> [c EXCEPT !.in_queues = [@ EXCEPT ![port] = Tail(q)]]]

\* mutant of write_port: the queue keeps only the last value written
write_port_replacing(c, port, value) ==
    [c EXCEPT !.out_queues =
        [x \in (DOMAIN @) \cup {port} |-> IF x = port THEN <<value>> ELSE @[x]]]

write_port(c, port, value) ==
    [c EXCEPT !.out_queues = DictAppend(@, port, value)]

\* DataPath.latch_io_read: returns the datapath (d) and the controller (c)
latch_io_read(d, c, port) ==
    LET r == read_port(c, port)
    IN [d |-> [d EXCEPT !.io_reg = Mask(r.v)], c |-> r.c]

\* DataPath.io_write_commit
io_write_commit(d, c, port) == write_port(c, port, d.io_reg)

----------------------------------------------------------------------------
(* translator/parser.py: the AST.  An object of a dataclass is a record of  *)
(* its fields; the field k names its class (isinstance(x, C) is x.k = "C"). *)
(* A str is the sequence of the code points of its characters.              *)

Program(functions) == [functions |-> functions]
Func(name, body) == [name |-> name, body |-> body]

VarDecl(vtype, name) == [k |-> "VarDecl", vtype |-> vtype, name |-> name]
Assign(name, expr) == [k |-> "Assign", name |-> name, expr |-> expr]
While(cond, body) == [k |-> "While", cond |-> cond, body |-> body]
PrintInt(expr) == [k |-> "PrintInt", expr |-> expr]
PrintStr(text) == [k |-> "PrintStr", text |-> text]
PrintChar(expr) == [k |-> "PrintChar", expr |-> expr]
Break == [k |-> "Break"]
If(cond, then_body, else_body) ==
    [k |-> "If", cond |-> cond, then_body |-> then_body, else_body |-> else_body]

IntLit(value) == [k |-> "IntLit", value |-> value]
Var(name) == [k |-> "Var", name |-> name]
BinOp(op, a, b) == [k |-> "BinOp", op |-> op, a |-> a, b |-> b]
Call(name, args) == [k |-> "Call", name |-> name, args |-> args]

----------------------------------------------------------------------------
(* translator/codegen.py.  A method of Codegen is an operator from the      *)
(* object before the call (a record of its fields) to the object after it;  *)
(* the field err holds the exception that left the method, and a method     *)
(* entered with err set does nothing (the exception is propagating).        *)

\* isa.py DEFAULT_NUM_VECTORS
DEFAULT_NUM_VECTORS == 8

\* Codegen.__init__
Codegen ==
    [code |-> <<>>, labels |-> <<>>, vars |-> <<>>, data_next |-> 0,
     break_stack |-> <<>>, var_types |-> <<>>, array_bases |-> <<>>,
     string_bases |-> <<>>, err |-> "none"]

ok(g) == g.err = "none"

\* raise e
raise(g, e) == IF ok(g) THEN [g EXCEPT !.err = e] ELSE g

\* Codegen.emit
emit(g, opcode, arg) ==
    IF ok(g) THEN [g EXCEPT !.code = Append(@, Instr(opcode, arg))] ELSE g

\* consecutive calls of emit
emit_all(g, instrs) == IF ok(g) THEN [g EXCEPT !.code = @ \o instrs] ELSE g

\* self.code[pos].arg = arg
patch(g, pos, arg) == IF ok(g) THEN [g EXCEPT !.code[pos + 1].arg = arg] ELSE g

\* Codegen.alloc_var: the object after the call (the address returned is
\* vars[name] of that object)
alloc_var(g, name) ==
    IF ~ok(g) \/ name \in DOMAIN g.vars THEN g
    ELSE [g EXCEPT !.vars = (name :> g.data_next) @@ @,
                   !.data_next =
                       @ + (IF name \in DOMAIN g.var_types
                               /\ g.var_types[name] = "long" THEN 2 ELSE 1)]

\* Codegen.alloc_buffer: the object after the call (the base returned is
\* data_next of the object before it)
alloc_buffer(g, words) ==
    IF ok(g) THEN [g EXCEPT !.data_next = @ + words] ELSE g

\* self.emit(PUSHI, base); self.emit(PUSHI, var_addr); self.emit(STORE),
\* var_addr the address of the variable name
store_pointer(g, base, name) ==
    IF ok(g)
    THEN emit_all(g, <<Instr("PUSHI", base), Instr("PUSHI", g.vars[name]),
                       I0("STORE")>>)
    ELSE g

\* Codegen.ensure_array_initialized, capacity 128
ensure_array_initialized(g, name) ==
    IF ~ok(g) \/ name \in DOMAIN g.array_bases THEN g
    ELSE store_pointer(
             alloc_var([alloc_buffer(g, 128) EXCEPT
                            !.array_bases = (name :> g.data_next) @@ @], name),
             g.data_next, name)

\* the stores of _ensure_cstr_literal: the characters, then the terminator
cstr_stores(text, base) ==
    [j \in 1..(3 * (Len(text) + 1)) |->
        IF (j - 1) % 3 = 0
        THEN Instr("PUSHI", IF (j - 1) \div 3 < Len(text)
                            THEN text[(j - 1) \div 3 + 1] ELSE 0)
        ELSE IF (j - 1) % 3 = 1 THEN Instr("PUSHI", base + (j - 1) \div 3)
        ELSE I0("STORE")]

\* the name of the pointer cell of the n-th literal
strlit_name(n) == "__strlit_" \o ToString(n)

\* _ensure_cstr_literal, after the pointer cell is allocated: the pointer is
\* stored and the literal is entered in string_bases
register_literal(g, text, base, var_name) ==
    [store_pointer(g, base, var_name) EXCEPT
        !.string_bases = (text :> g.vars[var_name]) @@ @]

\* Codegen._ensure_cstr_literal: the object after the call (the address
\* returned is string_bases[text] of that object)
ensure_cstr_literal(g, text) ==
    IF ~ok(g) \/ text \in DOMAIN g.string_bases THEN g
    ELSE register_literal(
             alloc_var(emit_all(alloc_buffer(g, Len(text) + 1),
                                cstr_stores(text, g.data_next)),
                       strlit_name(Cardinality(DOMAIN g.string_bases))),
             text, g.data_next, strlit_name(Cardinality(DOMAIN g.string_bases)))

\* _emit_print_cstr, after ptr is allocated.  start is len(self.code) after
\* the first four instructions, the JZ is the fifth instruction of the loop
\* and is patched to the position after the JMP
print_cstr_code(g, addr) ==
    LET ptr == g.vars["__ptr__"]
        start == Len(g.code) + 4
        end == Len(g.code) + 17
    IN emit_all(g, <<Instr("PUSHI", addr), I0("LOAD"),
                     Instr("PUSHI", ptr), I0("STORE"),
                     Instr("PUSHI", ptr), I0("LOAD"), I0("LOAD"), I0("DUP"),
                     Instr("JZ", end), Instr("OUT", 1),
                     Instr("PUSHI", ptr), I0("LOAD"), Instr("PUSHI", 1), I0("ADD"),
                     Instr("PUSHI", ptr), I0("STORE"),
                     Instr("JMP", start)>>)

\* Codegen._emit_print_cstr
emit_print_cstr(g, addr) ==
    IF ok(g) THEN print_cstr_code(alloc_var(g, "__ptr__"), addr) ELSE g

\* mutant of readInt_code: a digit is taken relative to the character 1
readInt_code_from_one(g) ==
    LET tmp == g.vars["__tmp__"]
        ch == g.vars["__ch__"]
        loop == Len(g.code) + 3
        end == Len(g.code) + 23
    IN emit_all(g, <<Instr("PUSHI", 0), Instr("PUSHI", tmp), I0("STORE"),
                     Instr("IN", 1), Instr("PUSHI", ch), I0("STORE"),
                     Instr("PUSHI", ch), I0("LOAD"), Instr("PUSHI", 10), I0("SUB"),
                     Instr("JZ", end),
                     Instr("PUSHI", tmp), I0("LOAD"), Instr("PUSHI", 10), I0("MUL"),
                     Instr("PUSHI", ch), I0("LOAD"), Instr("PUSHI", 49), I0("SUB"),
                     I0("ADD"),
                     Instr("PUSHI", tmp), I0("STORE"),
                     Instr("JMP", loop),
                     Instr("PUSHI", tmp), I0("LOAD")>>)

\* gen_expr, Call readInt, after tmp and ch are allocated.  loop is
\* len(self.code) after the first three instructions, the JZ is the eighth
\* instruction of the loop and is patched to the position after the JMP
readInt_code(g) ==
    LET tmp == g.vars["__tmp__"]
        ch == g.vars["__ch__"]
        loop == Len(g.code) + 3
        end == Len(g.code) + 23
    IN emit_all(g, <<Instr("PUSHI", 0), Instr("PUSHI", tmp), I0("STORE"),
                     Instr("IN", 1), Instr("PUSHI", ch), I0("STORE"),
                     Instr("PUSHI", ch), I0("LOAD"), Instr("PUSHI", 10), I0("SUB"),
                     Instr("JZ", end),
                     Instr("PUSHI", tmp), I0("LOAD"), Instr("PUSHI", 10), I0("MUL"),
                     Instr("PUSHI", ch), I0("LOAD"), Instr("PUSHI", 48), I0("SUB"),
                     I0("ADD"),
                     Instr("PUSHI", tmp), I0("STORE"),
                     Instr("JMP", loop),
                     Instr("PUSHI", tmp), I0("LOAD")>>)

\* gen_expr, Call readInt
gen_readInt(g) ==
    IF ok(g) THEN readInt_code(alloc_var(alloc_var(g, "__tmp__"), "__ch__")) ELSE g

\* the ALU instruction of a binary operator
binop_opcode(op) ==
    CASE op = "*" -> "MUL" [] op = "+" -> "ADD" [] op = "-" -> "SUB"
      [] op = "<=" -> "LE"

\* mutant of gen_eq_tail: the two results are exchanged
gen_eq_tail_exchanged(g) ==
    IF ~ok(g) THEN g
    ELSE emit_all(g, <<I0("SUB"), Instr("JZ", Len(g.code) + 4),
                       Instr("PUSHI", 1), Instr("JMP", Len(g.code) + 5),
                       Instr("PUSHI", 0)>>)

\* gen_expr, BinOp ==, after the two operands: SUB; JZ l_true, patched to the
\* position of PUSHI 1; PUSHI 0; JMP l_end, patched to the position after
\* PUSHI 1; PUSHI 1
gen_eq_tail(g) ==
    IF ~ok(g) THEN g
    ELSE emit_all(g, <<I0("SUB"), Instr("JZ", Len(g.code) + 4),
                       Instr("PUSHI", 0), Instr("JMP", Len(g.code) + 5),
                       Instr("PUSHI", 1)>>)

\* self.emit(PUSHI, addr); self.emit(LOAD), addr the address of name
load_var(g, name) ==
    IF ok(g) THEN emit_all(g, <<Instr("PUSHI", g.vars[name]), I0("LOAD")>>) ELSE g

\* mutant of store_var: the address is not pushed before the STORE
store_var_without_address(g, name) ==
    IF ok(g) THEN emit_all(g, <<I0("STORE")>>) ELSE g

\* self.emit(PUSHI, addr); self.emit(STORE), addr the address of name
store_var(g, name) ==
    IF ok(g) THEN emit_all(g, <<Instr("PUSHI", g.vars[name]), I0("STORE")>>) ELSE g

RECURSIVE gen_expr(_, _)

\* Codegen.gen_expr
gen_expr(g, e) ==
    IF ~ok(g) THEN g
    ELSE IF e.k = "IntLit" THEN emit(g, "PUSHI", e.value % ArgSize)
    ELSE IF e.k = "Var" THEN load_var(alloc_var(g, e.name), e.name)
    ELSE IF e.k = "Call"
    THEN IF e.name = "readInt" THEN gen_readInt(g)
         ELSE IF e.name = "readChar" THEN emit(g, "IN", 1)
         ELSE IF e.name = "get" /\ Len(e.args) = 2 /\ e.args[1].k = "Var"
         THEN emit_all(
                  gen_expr(load_var(alloc_var(ensure_array_initialized(
                                                  g, e.args[1].name),
                                              e.args[1].name),
                                    e.args[1].name),
                           e.args[2]),
                  <<I0("ADD"), I0("LOAD")>>)
         ELSE raise(g, "NotImplementedError")
    ELSE IF e.k = "BinOp" /\ e.op \in {"*", "+", "-", "<="}
    THEN emit(gen_expr(gen_expr(g, e.a), e.b), binop_opcode(e.op), 0)
    ELSE IF e.k = "BinOp" /\ e.op = "=="
    THEN gen_eq_tail(gen_expr(gen_expr(g, e.a), e.b))
    ELSE raise(g, "NotImplementedError")

\* gen_stmt, Break: the jump is registered on the innermost break list
emit_break(g) ==
    IF ~ok(g) THEN g
    ELSE [g EXCEPT !.code = Append(@, Instr("JMP", 0)),
                   !.break_stack[Len(g.break_stack)] = Append(@, Len(g.code))]

\* gen_stmt, VarDecl: self.alloc_var(s.name); self.var_types[s.name] = s.vtype
declare(g, s) ==
    [alloc_var(g, s.name) EXCEPT !.var_types = (s.name :> s.vtype) @@ @]

\* gen_stmt, VarDecl of a string, after the declaration
string_buffer(g, name) ==
    store_pointer(alloc_var(alloc_buffer(g, 64), name), g.data_next, name)

\* gen_stmt, VarDecl
gen_VarDecl(g, s) ==
    IF s.vtype = "string" THEN string_buffer(declare(g, s), s.name)
    ELSE declare(g, s)

\* gen_stmt, Assign from readString(), after the variable and ptr are
\* allocated.  rs is len(self.code) after the first four instructions, the JZ
\* is the fifth instruction of the loop and is patched to the position after
\* the JMP
readString_code(g, name) ==
    LET base == g.vars[name]
        ptr == g.vars["__ptr__"]
        rs0 == Len(g.code) + 4
        end == Len(g.code) + 19
    IN emit_all(g, <<Instr("PUSHI", base), I0("LOAD"),
                     Instr("PUSHI", ptr), I0("STORE"),
                     Instr("IN", 1), I0("DUP"), Instr("PUSHI", 10), I0("SUB"),
                     Instr("JZ", end),
                     Instr("PUSHI", ptr), I0("LOAD"), I0("STORE"),
                     Instr("PUSHI", ptr), I0("LOAD"), Instr("PUSHI", 1), I0("ADD"),
                     Instr("PUSHI", ptr), I0("STORE"),
                     Instr("JMP", rs0),
                     Instr("PUSHI", 0), Instr("PUSHI", ptr), I0("LOAD"),
                     I0("STORE")>>)

\* gen_stmt, Assign of a sum of two variables to a long variable, after the
\* variables and the temporaries are allocated.  The JZ is instruction 31 and
\* the JMP instruction 38 of the statement; both are patched to the position
\* after the JMP
long_add_code(g, name, a_name, b_name) ==
    LET base == g.vars[name]
        a == g.vars[a_name]
        b == g.vars[b_name]
        tmp_lo == g.vars["__tmp_lo__"]
        tmp_hi == g.vars["__tmp_hi__"]
        end == Len(g.code) + 39
    IN emit_all(g,
           <<Instr("PUSHI", a), I0("LOAD"), Instr("PUSHI", a + 1), I0("LOAD"),
             Instr("PUSHI", b), I0("LOAD"), Instr("PUSHI", b + 1), I0("LOAD"),
             Instr("PUSHI", tmp_hi), I0("SWAP"),
             Instr("PUSHI", a), I0("LOAD"), Instr("PUSHI", b), I0("LOAD"),
             I0("ADD"),
             Instr("PUSHI", tmp_lo), I0("STORE"),
             Instr("PUSHI", a), I0("LOAD"), Instr("PUSHI", 1), I0("SUB"),
             Instr("PUSHI", tmp_lo), I0("LOAD"),
             I0("LE"),
             Instr("PUSHI", a + 1), I0("LOAD"), Instr("PUSHI", b + 1), I0("LOAD"),
             I0("ADD"),
             Instr("PUSHI", tmp_hi), I0("STORE"),
             Instr("JZ", end),
             Instr("PUSHI", tmp_hi), I0("LOAD"), Instr("PUSHI", 1), I0("ADD"),
             Instr("PUSHI", tmp_hi), I0("STORE"),
             Instr("JMP", end),
             Instr("PUSHI", tmp_lo), I0("LOAD"), Instr("PUSHI", base), I0("STORE"),
             Instr("PUSHI", tmp_hi), I0("LOAD"), Instr("PUSHI", base + 1),
             I0("STORE")>>)

\* gen_stmt, Assign of a sum to a long variable
gen_long_add(g, s) ==
    IF ~(s.expr.a.k = "Var" /\ s.expr.b.k = "Var")
    THEN raise(alloc_var(g, s.name), "AssertionError")
    ELSE long_add_code(
             alloc_var(alloc_var(alloc_var(alloc_var(alloc_var(g, s.name),
                                                     s.expr.a.name),
                                           s.expr.b.name),
                                 "__tmp_lo__"),
                       "__tmp_hi__"),
             s.name, s.expr.a.name, s.expr.b.name)

\* gen_stmt, Assign of readLong() to a long variable, after it is allocated
readLong_code(g, name) ==
    emit_all(g, <<Instr("IN", 3), Instr("PUSHI", g.vars[name]), I0("STORE"),
                  Instr("IN", 3), Instr("PUSHI", g.vars[name] + 1), I0("STORE")>>)

\* gen_stmt, Assign of a word to a long variable, after the expression
long_from_word(g, name) ==
    IF ok(g)
    THEN emit_all(g, <<Instr("PUSHI", g.vars[name]), I0("STORE"), Instr("PUSHI", 0),
                       Instr("PUSHI", g.vars[name] + 1), I0("STORE")>>)
    ELSE g

\* gen_stmt, Assign
gen_Assign(g, s) ==
    IF s.expr.k = "Call" /\ s.expr.name = "readString"
    THEN readString_code(alloc_var(alloc_var(g, s.name), "__ptr__"), s.name)
    ELSE IF s.name \in DOMAIN g.var_types /\ g.var_types[s.name] = "long"
    THEN IF s.expr.k = "Call" /\ s.expr.name = "readLong"
         THEN readLong_code(alloc_var(g, s.name), s.name)
         ELSE IF s.expr.k = "BinOp" /\ s.expr.op = "+" THEN gen_long_add(g, s)
         ELSE long_from_word(gen_expr(alloc_var(g, s.name), s.expr), s.name)
    ELSE store_var(alloc_var(gen_expr(g, s.expr), s.name), s.name)

\* the positions in positions get the argument arg
patch_all(instrs, positions, arg) ==
    [i \in 1..Len(instrs) |->
        IF \E j \in 1..Len(positions) : positions[j] = i - 1
        THEN [instrs[i] EXCEPT !.arg = arg] ELSE instrs[i]]

\* for pos in self.break_stack.pop(): self.code[pos].arg = end
patch_breaks(g, end) ==
    [g EXCEPT !.code = patch_all(@, g.break_stack[Len(g.break_stack)], end),
              !.break_stack = SubSeq(@, 1, Len(@) - 1)]

\* mutant of close_while: the breaks are sent to the start of the loop
close_while_breaks_to_start(g, start, jz_pos) ==
    IF ~ok(g) THEN g
    ELSE patch_breaks(patch(emit(g, "JMP", start), jz_pos, Len(g.code) + 1), start)

\* gen_stmt, While, after the body: the closing jump, end = len(self.code)
\* after it, and the patches of the JZ and of the breaks
close_while(g, start, jz_pos) ==
    IF ~ok(g) THEN g
    ELSE patch_breaks(patch(emit(g, "JMP", start), jz_pos, Len(g.code) + 1),
                      Len(g.code) + 1)

\* self.break_stack.append([])
open_breaks(g) == IF ok(g) THEN [g EXCEPT !.break_stack = Append(@, <<>>)] ELSE g

RECURSIVE gen_stmt(_, _)
RECURSIVE gen_stmts(_, _)
RECURSIVE gen_while_body(_, _)

\* for st in body: self.gen_stmt(st)
gen_stmts(g, body) ==
    IF body = <<>> \/ ~ok(g) THEN g
    ELSE gen_stmts(gen_stmt(g, Head(body)), Tail(body))

\* gen_stmt, While: the loop over the body
gen_while_body(g, body) ==
    IF body = <<>> \/ ~ok(g) THEN g
    ELSE gen_while_body(IF Head(body).k = "Break" THEN emit_break(g)
                        ELSE gen_stmt(g, Head(body)),
                        Tail(body))

\* gen_stmt, While, after the condition (c1 is the object after it)
while_from_cond(c1, start, s) ==
    close_while(gen_while_body(open_breaks(emit(c1, "JZ", 0)), s.body),
                start, Len(c1.code))

\* gen_stmt, While
gen_While(g, s) == while_from_cond(gen_expr(g, s.cond), Len(g.code), s)

\* gen_stmt, If, after the else branch
if_from_else(c4, jmp_end) == patch(c4, jmp_end, Len(c4.code))

\* gen_stmt, If, after the then branch (c2 is the object after it)
if_from_then(c2, jz_pos, s) ==
    IF s.else_body # None
    THEN if_from_else(gen_stmts(patch(emit(c2, "JMP", 0), jz_pos, Len(c2.code) + 1),
                                s.else_body[1]),
                      Len(c2.code))
    ELSE patch(c2, jz_pos, Len(c2.code))

\* gen_stmt, If, after the condition (c1 is the object after it)
if_from_cond(c1, s) ==
    if_from_then(gen_stmts(emit(c1, "JZ", 0), s.then_body), Len(c1.code), s)

\* gen_stmt, If
gen_If(g, s) == if_from_cond(gen_expr(g, s.cond), s)

\* gen_stmt, Call printLong, after the variable is allocated
printLong_code(g, name) ==
    emit_all(g, <<Instr("PUSHI", g.vars[name]), I0("LOAD"), Instr("OUT", 3),
                  Instr("PUSHI", g.vars[name] + 1), I0("LOAD"), Instr("OUT", 3)>>)

\* gen_stmt, Call
gen_Call(g, s) ==
    IF s.name = "ei" /\ Len(s.args) = 0 THEN emit(g, "EI", 0)
    ELSE IF s.name = "di" /\ Len(s.args) = 0 THEN emit(g, "DI", 0)
    ELSE IF s.name = "printChar" /\ Len(s.args) = 1
    THEN emit(gen_expr(g, s.args[1]), "OUT", 1)
    ELSE IF s.name = "readChar" /\ Len(s.args) = 0 THEN emit(g, "IN", 1)
    ELSE IF s.name = "printLong" /\ Len(s.args) = 1 /\ s.args[1].k = "Var"
    THEN printLong_code(alloc_var(g, s.args[1].name), s.args[1].name)
    ELSE IF s.name = "set" /\ Len(s.args) = 3 /\ s.args[1].k = "Var"
    THEN emit_all(
             gen_expr(load_var(gen_expr(alloc_var(ensure_array_initialized(
                                                      g, s.args[1].name),
                                                  s.args[1].name),
                                        s.args[3]),
                               s.args[1].name),
                      s.args[2]),
             <<I0("ADD"), I0("STORE")>>)
    ELSE raise(g, "NotImplementedError")

\* gen_stmt, PrintStr, after _ensure_cstr_literal
print_literal(g, text) == emit_print_cstr(g, g.string_bases[text])

\* gen_stmt, PrintChar of a string variable, after it is allocated
print_string_var(g, name) == emit_print_cstr(g, g.vars[name])

\* Codegen.gen_stmt
gen_stmt(g, s) ==
    IF ~ok(g) THEN g
    ELSE IF s.k = "Break"
    THEN IF g.break_stack = <<>> THEN raise(g, "NotImplementedError")
         ELSE emit_break(g)
    ELSE IF s.k = "VarDecl" THEN gen_VarDecl(g, s)
    ELSE IF s.k = "Assign" THEN gen_Assign(g, s)
    ELSE IF s.k = "While" THEN gen_While(g, s)
    ELSE IF s.k = "If" THEN gen_If(g, s)
    ELSE IF s.k = "Call" THEN gen_Call(g, s)
    ELSE IF s.k = "PrintInt"
    THEN emit_all(gen_expr(g, s.expr), <<Instr("OUT", 2), Instr("PUSHI", 10),
                                         Instr("OUT", 1)>>)
    ELSE IF s.k = "PrintStr"
    THEN print_literal(ensure_cstr_literal(g, s.text), s.text)
    ELSE IF s.k = "PrintChar"
    THEN IF s.expr.k = "Var" /\ s.expr.name \in DOMAIN g.var_types
            /\ g.var_types[s.expr.name] = "string"
         THEN print_string_var(alloc_var(g, s.expr.name), s.expr.name)
         ELSE emit(gen_expr(g, s.expr), "OUT", 1)
    ELSE raise(g, "NotImplementedError")

\* the names irq0 .. irq9
irq_name(n) == "irq" \o ToString(n)

\* Codegen._is_irq_func(name) is not None, for the names of at most four
\* characters
is_irq_func(name) == \E n \in 0..9 : name = irq_name(n)

\* gen_func: the instruction that ends the function
end_opcode(name) ==
    IF name = "main" THEN "HALT" ELSE IF is_irq_func(name) THEN "IRET" ELSE "RET"

\* Codegen.gen_func
gen_func(g, f) ==
    emit(gen_stmts([g EXCEPT !.labels = (f.name :> Len(g.code)) @@ @], f.body),
         end_opcode(f.name), 0)

RECURSIVE gen_funcs(_, _)

\* gen: for f in prog.functions: self.gen_func(f)
gen_funcs(g, functions) ==
    IF functions = <<>> \/ ~ok(g) THEN g
    ELSE gen_funcs(gen_func(g, Head(functions)), Tail(functions))

\* mutant of relocate: the conditional jumps are left where they were
relocate_jumps_only(instrs, start_main) ==
    [i \in 1..Len(instrs) |->
        IF instrs[i].opcode \in {"JMP", "CALL"}
        THEN [instrs[i] EXCEPT !.arg = @ + start_main] ELSE instrs[i]]

\* gen: the relocation of the jumps of self.code
relocate(instrs, start_main) ==
    [i \in 1..Len(instrs) |->
        IF instrs[i].opcode \in {"JMP", "JZ", "CALL"}
        THEN [instrs[i] EXCEPT !.arg = @ + start_main] ELSE instrs[i]]

\* mutant of vector_table: every default entry jumps to main itself
vector_table_defaults_to_main(labels, start_main) ==
    [i \in 1..DEFAULT_NUM_VECTORS |->
        IF i > 1 /\ irq_name(i - 1) \in DOMAIN labels
        THEN Instr("JMP", start_main + labels[irq_name(i - 1)])
        ELSE IF "main" \in DOMAIN labels
        THEN Instr("JMP", start_main + labels["main"])
        ELSE Instr("JMP", 0)]

\* gen: the vector table (slot i - 1 of the list is element i)
vector_table(labels, start_main) ==
    [i \in 1..DEFAULT_NUM_VECTORS |->
        IF i = 1
        THEN IF "main" \in DOMAIN labels
             THEN Instr("JMP", start_main + labels["main"])
             ELSE Instr("JMP", 0)
        ELSE IF irq_name(i - 1) \in DOMAIN labels
        THEN Instr("JMP", start_main + labels[irq_name(i - 1)])
        ELSE Instr("JMP", 0)]

\* gen: the relocation, self.code being changed in place
relocated(g) ==
    IF ok(g) THEN [g EXCEPT !.code = relocate(@, DEFAULT_NUM_VECTORS)] ELSE g

\* Codegen.gen: the object after the call
gen_object(p) == relocated(gen_funcs(Codegen, p.functions))

\* Codegen.gen: the list returned, for the object g after the call
gen(g) == vector_table(g.labels, DEFAULT_NUM_VECTORS) \o g.code

----------------------------------------------------------------------------
(* Inputs: the instruction images and the schedules of the model *)

Alphabet ==
    {I0(op) : op \in Opcodes \ {"PUSHI", "JMP", "JZ", "CALL", "IN", "OUT"}}
    \cup {Instr("PUSHI", v) : v \in {-1, 0, 2}}
    \cup {Instr(op, a) : op \in {"JMP", "JZ", "CALL"}, a \in {0, 4}}
    \cup {Instr(op, p) : op \in {"IN", "OUT"}, p \in Ports}

\* slot 0 jumps to main; slot CH is the handler of port CH (h, then IRET);
\* slot D is the handler of port D (IRET alone); main is NOP, HALT
HandlerProg(h) ==
    <<Instr("JMP", 3), h, I0("IRET"), I0("NOP"), I0("HALT")>>

\* h executed on a data stack of depth 2
MainProg(h) == <<Instr("PUSHI", -1), Instr("PUSHI", 2), h, I0("HALT")>>

\* h executed on the empty data stack, as the first instruction
FirstProg(h) == <<h, I0("EI"), I0("HALT")>>

OtherProgs ==
    {<<>>, <<I0("NOP")>>, <<I0("HALT")>>,
     <<I0("LOAD"), I0("LOAD"), I0("HALT")>>,
     <<I0("DI"), I0("NOP"), I0("EI"), I0("HALT")>>,
     <<Instr("CALL", 2), I0("HALT"), I0("RET")>>}

\* an ALU instruction on the operands a (second) and b (top)
ArithProg(a, b, op) ==
    <<Instr("PUSHI", a), Instr("PUSHI", b), I0(op), I0("HALT")>>

\* operand pairs: b above a as an unsigned word, a zero divisor, equal operands
ArithOperands == {<<2, -1>>, <<-1, 0>>, <<0, 0>>, <<2, 2>>}

ArithProgs == {ArithProg(ab[1], ab[2], op) : ab \in ArithOperands, op \in AluOps}

\* JZ on a stack whose only element is v
BranchProg(v) ==
    <<Instr("PUSHI", v), Instr("JZ", 3), Instr("PUSHI", 2), I0("HALT")>>

\* two IN on one port in a row; two OUT on one port in a row
InProg(p) == <<Instr("IN", p), Instr("IN", p), I0("HALT")>>
OutProg(p) ==
    <<Instr("PUSHI", -1), Instr("PUSHI", 2), Instr("OUT", p), Instr("OUT", p),
      I0("HALT")>>

\* in a handler entered at slot CH: RET empties the return stack, then RET and
\* IRET run on the empty return stack
UnderflowProg == <<I0("NOP"), I0("RET"), I0("IRET"), I0("HALT")>>

Programs ==
    {HandlerProg(h) : h \in Alphabet} \cup {MainProg(h) : h \in Alphabet}
    \cup {FirstProg(h) : h \in Alphabet} \cup OtherProgs
    \cup ArithProgs \cup {BranchProg(v) : v \in {-1, 0, 2}}
    \cup {InProg(p) : p \in Ports} \cup {OutProg(p) : p \in Ports}
    \cup {UnderflowProg}

\* a value that fits a word and one that does not
EvValues == {1, TwoW + 2}

Events == {Event(t, p, v) : t \in 0..MaxEvTick, p \in Ports, v \in EvValues}

\* IOController.__init__ groups the events by tick, so the order of two events
\* of different ticks is immaterial: the schedules are taken sorted by tick
RECURSIVE SchedulesOfLen(_)
SchedulesOfLen(n) ==
    IF n = 0 THEN {<<>>}
    ELSE {Append(sch, ev) : sch \in SchedulesOfLen(n - 1), ev \in Events}

SortedByTick(sch) ==
    \A i \in 1..(Len(sch) - 1) : sch[i].tick <= sch[i + 1].tick

Schedules ==
    {sch \in UNION {SchedulesOfLen(n) : n \in 0..MaxEvents} : SortedByTick(sch)}

----------------------------------------------------------------------------
(* core/cpu.py *)

FETCH_IR == "FETCH_IR"
LATCH_PC == "LATCH_PC"
EXEC == "EXEC"

\* self.imem[self.pc]: a Python list index (negative indices count from the end)
in_imem(m, i) == -Len(m) <= i /\ i < Len(m)
imem_at(m, i) == IF i >= 0 THEN m[i + 1] ELSE m[Len(m) + i + 1]

Op == ir[1].opcode
Arg == ir[1].arg

\* the state after self.dp.tick_begin() and self.io.on_tick(self.tick)
D0 == tick_begin(dp)
IO1 == on_tick(io, schedule, tick)

\* mutant of irq_taken: the in_isr test is left out
irq_taken_ignoring_isr(ie, isr, c) == ie /\ irq_pending(c) # None

\* maybe_raise_irq returns True
irq_taken(ie, isr, c) == ~(~ie \/ isr) /\ irq_pending(c) # None

\* the (opcode, step) pairs some branch of step_tick handles
handled(op, st) ==
    \/ op \in {"NOP", "PUSHI", "DUP", "DROP", "SWAP", "JMP", "JZ", "CALL",
               "RET", "IRET", "EI", "DI", "HALT"} /\ st = 0
    \/ op \in AluOps \cup {"LOAD", "STORE"} /\ st \in {0, 1, 2}
    \/ op \in {"IN", "OUT"} /\ st \in {0, 1}

\* the steps that call dm_read or dm_write
mem_step(op, st) == (op = "LOAD" /\ st = 1) \/ (op = "STORE" /\ st = 2)

\* the exception the call of step_tick ends with, "none" if it returns
StepError ==
    IF phase = FETCH_IR
    THEN IF ~irq_taken(int_enabled, in_isr, IO1) /\ ~in_imem(imem, pc)
         THEN "IndexError" ELSE "none"
    ELSE IF phase = LATCH_PC THEN "none"
    ELSE IF ir = None THEN "AttributeError"
    ELSE IF ~handled(Op, step)
         THEN "AssertionError: unknown or unhandled opcode"
    ELSE IF mem_step(Op, step) /\ dm_conflict(D0)
         THEN "AssertionError: dm conflict"
    ELSE "none"

\* run_machine: while cpu.tick < cpu.tick_limit and not cpu._halted;
\* an exception leaves the loop
Running == tick < tick_limit /\ ~halted /\ err = "none"

\* CPU.__init__, but for imem
CpuInit ==
    /\ dp = DataPathInit(DataWords)
    /\ io = IOControllerInit
    /\ rs = <<>>
    /\ pc = 0
    /\ ir = None
    /\ tick = 0
    /\ int_enabled = TRUE
    /\ in_isr = FALSE
    /\ phase = FETCH_IR
    /\ step = 0
    /\ halted = FALSE
    /\ last_pc = 0
    /\ last_ir = None
    /\ tmp_addr = 0
    /\ tmp_val = 0
    /\ tmp_alu = 0
    /\ err = "none"
    /\ did = "init"
    /\ fetch_tick = 0
    /\ at_irq = None
    /\ armed_at = 0

\* the translator has written the binary of code and run_machine has loaded it
Init ==
    /\ prog = Program(<<>>)
    /\ cg = Codegen
    /\ code \in Programs
    /\ blob = encode(code)
    /\ imem = decode(blob)
    /\ schedule \in Schedules
    /\ tick_limit = TickLimit
    /\ trace = FALSE
    /\ trace_out = <<>>
    /\ CpuInit

tick_inc == tick' = tick + 1

\* mutant of finish_instruction: the step counter is not reset
finish_instruction_keeping_step ==
    /\ phase' = FETCH_IR
    /\ step' = step
    /\ tick_inc

finish_instruction ==
    /\ phase' = FETCH_IR
    /\ step' = 0
    /\ tick_inc

\* an exception leaves step_tick: what ran before the raise stays done
StepRaises ==
    /\ Running
    /\ StepError # "none"
    /\ err' = StepError
    /\ dp' = D0
    /\ io' = IO1
    /\ last_pc' = IF phase = FETCH_IR THEN pc ELSE last_pc
    /\ did' = "raise"
    /\ UNCHANGED <<prog, cg, tick_limit, trace, trace_out, at_irq, code, blob, imem, schedule, rs, pc, ir, tick, int_enabled,
                   in_isr, armed_at, phase, step, halted, last_ir, tmp_addr, tmp_val,
                   tmp_alu, fetch_tick>>

\* what maybe_raise_irq finds when it dispatches: the tick, the latched port,
\* pc, the return stack, the data stack, T, S, the flags and the memory
Preempted ==
    [tick |-> tick, port |-> irq_pending(IO1)[1], pc |-> pc, rs |-> rs,
     stack |-> dp.stack, t |-> dp.t, s |-> dp.s, zero |-> dp.zero,
     sign |-> dp.sign, mem |-> dp.mem]

\* mutant of IrqDispatch: the address after the pre-empted instruction is saved
IrqDispatch_saving_next ==
    /\ Running
    /\ phase = FETCH_IR
    /\ irq_taken(int_enabled, in_isr, IO1)
    /\ rs' = Append(rs, pc + 1)
    /\ pc' = irq_pending(IO1)[1]
    /\ in_isr' = TRUE
    /\ io' = ack_irq(IO1)
    /\ dp' = D0
    /\ tick_inc
    /\ did' = "irq"
    /\ at_irq' = Some(Preempted)
    /\ UNCHANGED <<prog, cg, tick_limit, trace, trace_out, code, blob, imem, schedule, ir, int_enabled, phase, step,
                   halted, last_pc, last_ir, tmp_addr, tmp_val, tmp_alu, err,
                   fetch_tick>>
    /\ UNCHANGED armed_at

\* step_tick line 66-68 with maybe_raise_irq
IrqDispatch ==
    /\ Running
    /\ phase = FETCH_IR
    /\ irq_taken(int_enabled, in_isr, IO1)
    /\ rs' = Append(rs, pc)
    /\ pc' = irq_pending(IO1)[1]
    /\ in_isr' = TRUE
    /\ io' = ack_irq(IO1)
    /\ dp' = D0
    /\ tick_inc
    /\ did' = "irq"
    /\ at_irq' = Some(Preempted)
    /\ UNCHANGED <<prog, cg, tick_limit, trace, trace_out, code, blob, imem, schedule, ir, int_enabled, phase, step,
                   halted, last_pc, last_ir, tmp_addr, tmp_val, tmp_alu, err,
                   fetch_tick>>
    /\ UNCHANGED armed_at

\* mutant of FetchIr: the fetch does not wait for maybe_raise_irq to decline
FetchIr_racing_irq ==
    /\ Running
    /\ phase = FETCH_IR
    /\ in_imem(imem, pc)
    /\ last_pc' = pc
    /\ ir' = Some(imem_at(imem, pc))
    /\ last_ir' = ir'
    /\ phase' = LATCH_PC
    /\ tick_inc
    /\ dp' = D0
    /\ io' = IO1
    /\ did' = "fetch"
    /\ fetch_tick' = tick
    /\ UNCHANGED <<prog, cg, tick_limit, trace, trace_out, at_irq, code, blob, imem, schedule, rs, pc,
                   int_enabled, in_isr, armed_at, step, halted, tmp_addr, tmp_val, tmp_alu,
                   err>>

FetchIr ==
    /\ Running
    /\ phase = FETCH_IR
    /\ ~irq_taken(int_enabled, in_isr, IO1)
    /\ in_imem(imem, pc)
    /\ last_pc' = pc
    /\ ir' = Some(imem_at(imem, pc))
    /\ last_ir' = ir'
    /\ phase' = LATCH_PC
    /\ tick_inc
    /\ dp' = D0
    /\ io' = IO1
    /\ did' = "fetch"
    /\ fetch_tick' = tick
    /\ UNCHANGED <<prog, cg, tick_limit, trace, trace_out, at_irq, code, blob, imem, schedule, rs, pc,
                   int_enabled, in_isr, armed_at, step, halted, tmp_addr, tmp_val, tmp_alu,
                   err>>

LatchPc ==
    /\ Running
    /\ phase = LATCH_PC
    /\ pc' = pc + 1
    /\ phase' = EXEC
    /\ step' = 0
    /\ tick_inc
    /\ dp' = D0
    /\ io' = IO1
    /\ did' = "latch"
    /\ UNCHANGED <<prog, cg, tick_limit, trace, trace_out, at_irq, code, blob, imem, schedule, rs, ir, int_enabled, in_isr, armed_at,
                   halted, last_pc, last_ir, tmp_addr, tmp_val, tmp_alu, err,
                   fetch_tick>>

\* an EXEC branch of step_tick for opcode in ops at step st is entered
ExecAt(ops, st) ==
    /\ Running
    /\ phase = EXEC
    /\ ir # None
    /\ Op \in ops
    /\ step = st

\* what no EXEC branch changes
ExecFrame ==
    /\ did' = "exec"
    /\ UNCHANGED <<prog, cg, tick_limit, trace, trace_out, at_irq, code, blob, imem, schedule, ir, last_pc, last_ir, err,
                   fetch_tick>>

\* mutant of next_step: the step counter skips a step
next_step_skipping(st) ==
    /\ step' = st + 1
    /\ tick_inc
    /\ UNCHANGED phase

\* a step that is not the last one of its instruction
next_step(st) ==
    /\ step' = st
    /\ tick_inc
    /\ UNCHANGED phase

ExecNop ==
    /\ ExecAt({"NOP"}, 0)
    /\ dp' = D0
    /\ io' = IO1
    /\ finish_instruction
    /\ ExecFrame
    /\ UNCHANGED <<rs, pc, int_enabled, in_isr, armed_at, halted, tmp_addr, tmp_val, tmp_alu>>

ExecPushi ==
    /\ ExecAt({"PUSHI"}, 0)
    /\ dp' = latch_t_push(D0, "lit", Arg)
    /\ io' = IO1
    /\ finish_instruction
    /\ ExecFrame
    /\ UNCHANGED <<rs, pc, int_enabled, in_isr, armed_at, halted, tmp_addr, tmp_val, tmp_alu>>

ExecDup ==
    /\ ExecAt({"DUP"}, 0)
    /\ dp' = data_push(D0, D0.t)
    /\ io' = IO1
    /\ finish_instruction
    /\ ExecFrame
    /\ UNCHANGED <<rs, pc, int_enabled, in_isr, armed_at, halted, tmp_addr, tmp_val, tmp_alu>>

ExecDrop ==
    /\ ExecAt({"DROP"}, 0)
    /\ dp' = data_pop(D0).d
    /\ io' = IO1
    /\ finish_instruction
    /\ ExecFrame
    /\ UNCHANGED <<rs, pc, int_enabled, in_isr, armed_at, halted, tmp_addr, tmp_val, tmp_alu>>

ExecSwap ==
    /\ ExecAt({"SWAP"}, 0)
    /\ LET pa == data_pop(D0)
           pb == data_pop(pa.d)
       IN dp' = data_push(data_push(pb.d, pa.v), pb.v)
    /\ io' = IO1
    /\ finish_instruction
    /\ ExecFrame
    /\ UNCHANGED <<rs, pc, int_enabled, in_isr, armed_at, halted, tmp_addr, tmp_val, tmp_alu>>

ExecAlu0 ==
    /\ ExecAt(AluOps, 0)
    /\ dp' = alu_compute(D0, Op)
    /\ tmp_alu' = dp'.last_alu
    /\ io' = IO1
    /\ next_step(1)
    /\ ExecFrame
    /\ UNCHANGED <<rs, pc, int_enabled, in_isr, armed_at, halted, tmp_addr, tmp_val>>

ExecAlu1 ==
    /\ ExecAt(AluOps, 1)
    /\ dp' = data_pop(D0).d
    /\ io' = IO1
    /\ next_step(2)
    /\ ExecFrame
    /\ UNCHANGED <<rs, pc, int_enabled, in_isr, armed_at, halted, tmp_addr, tmp_val, tmp_alu>>

ExecAlu2 ==
    /\ ExecAt(AluOps, 2)
    /\ dp' = latch_t_push(data_pop(D0).d, "alu", tmp_alu)
    /\ io' = IO1
    /\ finish_instruction
    /\ ExecFrame
    /\ UNCHANGED <<rs, pc, int_enabled, in_isr, armed_at, halted, tmp_addr, tmp_val, tmp_alu>>

ExecLoad0 ==
    /\ ExecAt({"LOAD"}, 0)
    /\ dp' = latch_ar_from_t(D0)
    /\ io' = IO1
    /\ next_step(1)
    /\ ExecFrame
    /\ UNCHANGED <<rs, pc, int_enabled, in_isr, armed_at, halted, tmp_addr, tmp_val, tmp_alu>>

ExecLoad1 ==
    /\ ExecAt({"LOAD"}, 1)
    /\ ~dm_conflict(D0)
    /\ dp' = dm_read(D0)
    /\ io' = IO1
    /\ next_step(2)
    /\ ExecFrame
    /\ UNCHANGED <<rs, pc, int_enabled, in_isr, armed_at, halted, tmp_addr, tmp_val, tmp_alu>>

ExecLoad2 ==
    /\ ExecAt({"LOAD"}, 2)
    /\ dp' = latch_t_push(data_pop(D0).d, "mem", 0)
    /\ io' = IO1
    /\ finish_instruction
    /\ ExecFrame
    /\ UNCHANGED <<rs, pc, int_enabled, in_isr, armed_at, halted, tmp_addr, tmp_val, tmp_alu>>

ExecStore0 ==
    /\ ExecAt({"STORE"}, 0)
    /\ LET p == data_pop(D0)
       IN /\ tmp_addr' = p.v
          /\ dp' = latch_ar_from_lit(p.d, p.v)
    /\ io' = IO1
    /\ next_step(1)
    /\ ExecFrame
    /\ UNCHANGED <<rs, pc, int_enabled, in_isr, armed_at, halted, tmp_val, tmp_alu>>

ExecStore1 ==
    /\ ExecAt({"STORE"}, 1)
    /\ LET p == data_pop(D0)
       IN /\ tmp_val' = p.v
          /\ dp' = p.d
    /\ io' = IO1
    /\ next_step(2)
    /\ ExecFrame
    /\ UNCHANGED <<rs, pc, int_enabled, in_isr, armed_at, halted, tmp_addr, tmp_alu>>

ExecStore2 ==
    /\ ExecAt({"STORE"}, 2)
    /\ ~dm_conflict(D0)
    /\ dp' = dm_write(D0, tmp_val)
    /\ io' = IO1
    /\ finish_instruction
    /\ ExecFrame
    /\ UNCHANGED <<rs, pc, int_enabled, in_isr, armed_at, halted, tmp_addr, tmp_val, tmp_alu>>

ExecJmp ==
    /\ ExecAt({"JMP"}, 0)
    /\ pc' = Arg
    /\ dp' = D0
    /\ io' = IO1
    /\ finish_instruction
    /\ ExecFrame
    /\ UNCHANGED <<rs, int_enabled, in_isr, armed_at, halted, tmp_addr, tmp_val, tmp_alu>>

\* mutant of ExecJz: the pop comes before the test of the zero flag
ExecJz_popping_first ==
    /\ ExecAt({"JZ"}, 0)
    /\ pc' = IF data_pop(D0).d.zero THEN Arg ELSE pc
    /\ dp' = data_pop(D0).d
    /\ io' = IO1
    /\ finish_instruction
    /\ ExecFrame
    /\ UNCHANGED <<rs, int_enabled, in_isr, armed_at, halted, tmp_addr, tmp_val, tmp_alu>>

ExecJz ==
    /\ ExecAt({"JZ"}, 0)
    /\ pc' = IF D0.zero THEN Arg ELSE pc
    /\ dp' = data_pop(D0).d
    /\ io' = IO1
    /\ finish_instruction
    /\ ExecFrame
    /\ UNCHANGED <<rs, int_enabled, in_isr, armed_at, halted, tmp_addr, tmp_val, tmp_alu>>

\* mutant of ExecCall: the address of the CALL itself is saved
ExecCall_saving_own_address ==
    /\ ExecAt({"CALL"}, 0)
    /\ rs' = Append(rs, last_pc)
    /\ pc' = Arg
    /\ dp' = D0
    /\ io' = IO1
    /\ finish_instruction
    /\ ExecFrame
    /\ UNCHANGED <<int_enabled, in_isr, armed_at, halted, tmp_addr, tmp_val, tmp_alu>>

ExecCall ==
    /\ ExecAt({"CALL"}, 0)
    /\ rs' = Append(rs, pc)
    /\ pc' = Arg
    /\ dp' = D0
    /\ io' = IO1
    /\ finish_instruction
    /\ ExecFrame
    /\ UNCHANGED <<int_enabled, in_isr, armed_at, halted, tmp_addr, tmp_val, tmp_alu>>

\* mutant of rs_pop: an empty return stack restarts the program
rs_pop_or_zero ==
    /\ pc' = IF rs # <<>> THEN rs[Len(rs)] ELSE 0
    /\ rs' = IF rs # <<>> THEN SubSeq(rs, 1, Len(rs) - 1) ELSE rs

\* self.pc = self.rs.pop() if self.rs else self.pc
rs_pop ==
    /\ pc' = IF rs # <<>> THEN rs[Len(rs)] ELSE pc
    /\ rs' = IF rs # <<>> THEN SubSeq(rs, 1, Len(rs) - 1) ELSE rs

\* mutant of ExecRet: RET leaves the handler like IRET
ExecRet_clearing_isr ==
    /\ ExecAt({"RET"}, 0)
    /\ rs_pop
    /\ in_isr' = FALSE
    /\ dp' = D0
    /\ io' = IO1
    /\ finish_instruction
    /\ ExecFrame
    /\ UNCHANGED <<int_enabled, halted, tmp_addr, tmp_val, tmp_alu>>
    /\ UNCHANGED armed_at

ExecRet ==
    /\ ExecAt({"RET"}, 0)
    /\ rs_pop
    /\ dp' = D0
    /\ io' = IO1
    /\ finish_instruction
    /\ ExecFrame
    /\ UNCHANGED <<int_enabled, in_isr, armed_at, halted, tmp_addr, tmp_val, tmp_alu>>

ExecIret ==
    /\ ExecAt({"IRET"}, 0)
    /\ rs_pop
    /\ in_isr' = FALSE
    /\ dp' = D0
    /\ io' = IO1
    /\ finish_instruction
    /\ ExecFrame
    /\ UNCHANGED <<int_enabled, halted, tmp_addr, tmp_val, tmp_alu>>
    /\ armed_at' = IF in_isr /\ int_enabled THEN tick + 1 ELSE armed_at

ExecEi ==
    /\ ExecAt({"EI"}, 0)
    /\ int_enabled' = TRUE
    /\ dp' = D0
    /\ io' = IO1
    /\ finish_instruction
    /\ ExecFrame
    /\ UNCHANGED <<rs, pc, in_isr, halted, tmp_addr, tmp_val, tmp_alu>>
    /\ armed_at' = IF int_enabled \/ in_isr THEN armed_at ELSE tick + 1

ExecDi ==
    /\ ExecAt({"DI"}, 0)
    /\ int_enabled' = FALSE
    /\ dp' = D0
    /\ io' = IO1
    /\ finish_instruction
    /\ ExecFrame
    /\ UNCHANGED <<rs, pc, in_isr, halted, tmp_addr, tmp_val, tmp_alu>>
    /\ UNCHANGED armed_at

ExecIn0 ==
    /\ ExecAt({"IN"}, 0)
    /\ LET r == latch_io_read(D0, IO1, Arg)
       IN /\ dp' = r.d
          /\ io' = r.c
    /\ next_step(1)
    /\ ExecFrame
    /\ UNCHANGED <<rs, pc, int_enabled, in_isr, armed_at, halted, tmp_addr, tmp_val, tmp_alu>>

ExecIn1 ==
    /\ ExecAt({"IN"}, 1)
    /\ dp' = latch_t_push(D0, "io", 0)
    /\ io' = IO1
    /\ finish_instruction
    /\ ExecFrame
    /\ UNCHANGED <<rs, pc, int_enabled, in_isr, armed_at, halted, tmp_addr, tmp_val, tmp_alu>>

ExecOut0 ==
    /\ ExecAt({"OUT"}, 0)
    /\ LET p == data_pop(D0)
       IN dp' = latch_io_write_prepare(p.d, p.v)
    /\ io' = IO1
    /\ next_step(1)
    /\ ExecFrame
    /\ UNCHANGED <<rs, pc, int_enabled, in_isr, armed_at, halted, tmp_addr, tmp_val, tmp_alu>>

ExecOut1 ==
    /\ ExecAt({"OUT"}, 1)
    /\ dp' = D0
    /\ io' = io_write_commit(D0, IO1, Arg)
    /\ finish_instruction
    /\ ExecFrame
    /\ UNCHANGED <<rs, pc, int_enabled, in_isr, armed_at, halted, tmp_addr, tmp_val, tmp_alu>>

ExecHalt ==
    /\ ExecAt({"HALT"}, 0)
    /\ halted' = TRUE
    /\ tick_inc
    /\ dp' = D0
    /\ io' = IO1
    /\ ExecFrame
    /\ UNCHANGED <<rs, pc, int_enabled, in_isr, armed_at, phase, step, tmp_addr, tmp_val, tmp_alu>>

\* mutant of StepHalted: the call on a halted machine still counts a tick
StepHalted_counting ==
    /\ halted
    /\ err = "none"
    /\ tick_inc
    /\ UNCHANGED <<prog, cg, tick_limit, trace, trace_out, at_irq, code, blob, imem, schedule, dp, io, rs,
                   pc, ir, int_enabled, in_isr, armed_at, phase, step, halted, last_pc, last_ir,
                   tmp_addr, tmp_val, tmp_alu, err, did, fetch_tick>>

\* step_tick called on a halted machine returns at once
StepHalted ==
    /\ halted
    /\ err = "none"
    /\ UNCHANGED vars

Next ==
    \/ StepRaises
    \/ IrqDispatch
    \/ FetchIr
    \/ LatchPc
    \/ ExecNop
    \/ ExecPushi
    \/ ExecDup
    \/ ExecDrop
    \/ ExecSwap
    \/ ExecAlu0
    \/ ExecAlu1
    \/ ExecAlu2
    \/ ExecLoad0
    \/ ExecLoad1
    \/ ExecLoad2
    \/ ExecStore0
    \/ ExecStore1
    \/ ExecStore2
    \/ ExecJmp
    \/ ExecJz
    \/ ExecCall
    \/ ExecRet
    \/ ExecIret
    \/ ExecEi
    \/ ExecDi
    \/ ExecIn0
    \/ ExecIn1
    \/ ExecOut0
    \/ ExecOut1
    \/ ExecHalt
    \/ StepHalted

Spec == Init /\ [][Next]_vars

\* the attributes of cpu.dp the trace line of run_machine reads
TraceFields == {"t", "z", "ar", "zero", "sign"}

\* formatting the trace line: reading an attribute the DataPath object does
\* not have raises AttributeError
TraceError ==
    IF \E f \in TraceFields : f \notin DOMAIN dp THEN "AttributeError" ELSE "none"

\* run_machine, an iteration with trace set: the line is formatted and written
\* before step_tick is called; an exception raised by the formatting leaves
\* the loop with the machine untouched and nothing written
TraceRaises ==
    /\ Running
    /\ trace
    /\ TraceError # "none"
    /\ err' = TraceError
    /\ did' = "trace"
    /\ UNCHANGED <<prog, cg, tick_limit, trace, trace_out, at_irq, code, blob, imem, schedule, dp, io, rs,
                   pc, ir, tick, int_enabled, in_isr, armed_at, phase, step, halted, last_pc,
                   last_ir, tmp_addr, tmp_val, tmp_alu, fetch_tick>>

\* run_machine called with either value of trace
RunInit ==
    /\ prog = Program(<<>>)
    /\ cg = Codegen
    /\ code \in Programs
    /\ blob = encode(code)
    /\ imem = decode(blob)
    /\ schedule \in Schedules
    /\ tick_limit = TickLimit
    /\ trace \in BOOLEAN
    /\ trace_out = <<>>
    /\ CpuInit

\* step_tick is reached when trace is not set
Untraced(step_tick) == ~trace /\ step_tick

\* one iteration of the loop of run_machine
RunNext ==
    \/ TraceRaises
    \/ Untraced(StepRaises)
    \/ Untraced(IrqDispatch)
    \/ Untraced(FetchIr)
    \/ Untraced(LatchPc)
    \/ Untraced(ExecNop)
    \/ Untraced(ExecPushi)
    \/ Untraced(ExecDup)
    \/ Untraced(ExecDrop)
    \/ Untraced(ExecSwap)
    \/ Untraced(ExecAlu0)
    \/ Untraced(ExecAlu1)
    \/ Untraced(ExecAlu2)
    \/ Untraced(ExecLoad0)
    \/ Untraced(ExecLoad1)
    \/ Untraced(ExecLoad2)
    \/ Untraced(ExecStore0)
    \/ Untraced(ExecStore1)
    \/ Untraced(ExecStore2)
    \/ Untraced(ExecJmp)
    \/ Untraced(ExecJz)
    \/ Untraced(ExecCall)
    \/ Untraced(ExecRet)
    \/ Untraced(ExecIret)
    \/ Untraced(ExecEi)
    \/ Untraced(ExecDi)
    \/ Untraced(ExecIn0)
    \/ Untraced(ExecIn1)
    \/ Untraced(ExecOut0)
    \/ Untraced(ExecOut1)
    \/ Untraced(ExecHalt)
    \/ Untraced(StepHalted)

RunSpec == RunInit /\ [][RunNext]_vars

----------------------------------------------------------------------------
(* The binary image on its own: the translator writes it, run_machine loads it *)

\* the longest instruction list
MaxCode == 2

\* arguments at the edges of the 24-bit field, inside and outside it
ArgSamples ==
    {0, 1, ArgSignBit - 1, ArgSignBit, ArgSize - 1, ArgSize, -1, -ArgSignBit,
     -ArgSignBit - 1}

CodeAlphabet ==
    {I0(op) : op \in Opcodes}
    \cup {Instr(op, a) : op \in {"PUSHI", "JMP", "HALT"}, a \in ArgSamples}

\* the instruction lists of length n (a list is a function on 1..n)
CodesOfLen(n) == [1..n -> CodeAlphabet]

IsaInit ==
    /\ prog = Program(<<>>)
    /\ cg = Codegen
    /\ tick_limit = TickLimit
    /\ trace = FALSE
    /\ trace_out = <<>>
    /\ \E n \in 0..MaxCode : code \in CodesOfLen(n)
    /\ blob = <<>>
    /\ imem = <<>>
    /\ schedule = <<>>
    /\ CpuInit

IsaFrame ==
    UNCHANGED <<prog, cg, tick_limit, trace, trace_out, at_irq, code, schedule, dp, io, rs, pc, ir, tick, int_enabled, in_isr, armed_at,
                phase, step, halted, last_pc, last_ir, tmp_addr, tmp_val, tmp_alu,
                err, fetch_tick>>

\* translator/cli.py main: blob = encode(code), written to the target file
WriteBinary ==
    /\ did = "init"
    /\ blob' = encode(code)
    /\ did' = "encode"
    /\ UNCHANGED imem
    /\ IsaFrame

\* run_machine: blob = f.read(); code = decode(blob), the image of the CPU
LoadBinary ==
    /\ did = "encode"
    /\ imem' = decode(blob)
    /\ did' = "decode"
    /\ UNCHANGED blob
    /\ IsaFrame

IsaNext ==
    \/ WriteBinary
    \/ LoadBinary

IsaSpec == IsaInit /\ [][IsaNext]_vars

----------------------------------------------------------------------------
(* The translator on its own: translator/cli.py main translates the Program *)
(* the parser returned and writes the binary; run_machine loads it          *)

\* the longest function body of the flat sources
MaxBody == 2
\* the deepest nesting of the loop sources
MaxNest == 2
\* the longest list of functions
MaxFuncs == 3

\* the string literals "\x01" and "\x01\x02" (code points that fit a word)
Texts == {<<1>>, <<1, 2>>}

Conds ==
    {IntLit(1), BinOp("<=", Var("i"), IntLit(2)), BinOp("==", Var("i"), IntLit(1))}

\* statements without a body, one of each form gen_stmt and gen_expr know and
\* two they reject
Simple ==
    {Break,
     VarDecl("int", "i"), VarDecl("char", "c"), VarDecl("long", "a"),
     VarDecl("long", "b"), VarDecl("string", "s"),
     Assign("i", IntLit(1)), Assign("b", BinOp("*", Var("i"), IntLit(2))),
     Assign("a", BinOp("+", Var("a"), Var("b"))),
     Assign("a", BinOp("+", Var("a"), IntLit(1))),
     Assign("a", BinOp("-", Var("b"), Var("i"))),
     Assign("i", BinOp("==", Var("i"), Var("c"))),
     Assign("i", Call("readInt", <<>>)), Assign("c", Call("readChar", <<>>)),
     Assign("s", Call("readString", <<>>)), Assign("a", Call("readLong", <<>>)),
     Assign("i", Call("get", <<Var("v"), Var("i")>>)),
     Assign("i", Call("foo", <<>>)),
     Call("set", <<Var("v"), IntLit(0), Var("i")>>),
     Call("printLong", <<Var("a")>>), Call("printChar", <<Var("c")>>),
     Call("readChar", <<>>), Call("ei", <<>>), Call("di", <<>>),
     Call("foo", <<>>),
     PrintInt(Var("i")), PrintChar(Var("s")), PrintChar(IntLit(1)),
     PrintStr(<<1>>), PrintStr(<<1, 2>>)}

\* the function bodies of n statements without a body
FlatBodies(n) == [1..n -> Simple]

LoopSimple == {Break, Assign("i", IntLit(1)), PrintStr(<<1>>)}
LoopConds == {IntLit(1), BinOp("==", Var("i"), IntLit(1))}

RECURSIVE Nested(_)

\* the statements nested at most d deep: loops and conditionals whose bodies
\* end with or without a break
Nested(d) ==
    IF d = 0 THEN LoopSimple
    ELSE LET inner == Nested(d - 1)
             bodies == {<<x>> : x \in inner} \cup {<<x, Break>> : x \in inner}
         IN inner
            \cup {While(c, b) : c \in LoopConds, b \in bodies}
            \cup {If(IntLit(1), b, None) : b \in bodies}
            \cup {If(IntLit(1), b, Some(<<Break>>)) : b \in bodies}
            \cup {If(IntLit(1), <<Assign("i", IntLit(1))>>, Some(b)) : b \in bodies}

\* the function names: main, handlers of three slots, a name beyond the
\* table, the name of slot 0 and an ordinary function
FuncNames == {"main", "irq1", "irq2", "irq7", "irq8", "irq0", "helper"}

FuncBodies ==
    {<<>>, <<Assign("i", IntLit(1))>>, <<While(IntLit(1), <<Break>>)>>}

\* the programs of n functions, every function with the body b
Layouts(n, b) ==
    {Program([i \in 1..n |-> Func(names[i], b)]) : names \in [1..n -> FuncNames]}

\* the function main with the body b
Main(b) == Program(<<Func("main", b)>>)

\* the sources translated: main with a flat body of at most len statements,
\* main with a statement nested at most nest deep, alone and followed by a
\* print, and the programs of at most funcs functions
TransSources(len, nest, funcs) ==
    UNION {{Main(b) : b \in FlatBodies(n)} : n \in 0..len}
    \cup {Main(<<x>>) : x \in Nested(nest)}
    \cup {Main(<<x, PrintStr(<<1>>)>>) : x \in Nested(nest)}
    \cup UNION {Layouts(n, b) : n \in 0..funcs, b \in FuncBodies}

TransInit ==
    /\ prog \in TransSources(MaxBody, MaxNest, MaxFuncs)
    /\ cg = Codegen
    /\ code = <<>>
    /\ blob = <<>>
    /\ imem = <<>>
    /\ schedule = <<>>
    /\ tick_limit = TickLimit
    /\ trace = FALSE
    /\ trace_out = <<>>
    /\ CpuInit

TransFrame ==
    UNCHANGED <<prog, tick_limit, trace, trace_out, at_irq, schedule, dp, io, rs, pc, ir, tick, int_enabled,
                in_isr, armed_at, phase, step, halted, last_pc, last_ir, tmp_addr, tmp_val,
                tmp_alu, fetch_tick>>

\* translator/cli.py main: cg = Codegen(); code = cg.gen(prog);
\* blob = encode(code), written to the target file
Translate ==
    /\ did = "init"
    /\ ok(gen_object(prog))
    /\ cg' = gen_object(prog)
    /\ code' = gen(cg')
    /\ blob' = encode(code')
    /\ did' = "encode"
    /\ UNCHANGED <<imem, err>>
    /\ TransFrame

\* translator/cli.py main: an exception leaves cg.gen, nothing is written
TranslateRaises ==
    /\ did = "init"
    /\ ~ok(gen_object(prog))
    /\ cg' = gen_object(prog)
    /\ err' = cg'.err
    /\ did' = "raise"
    /\ UNCHANGED <<code, blob, imem>>
    /\ TransFrame

TransNext ==
    \/ Translate
    \/ TranslateRaises
    \/ LoadBinary

TransSpec == TransInit /\ [][TransNext]_vars

----------------------------------------------------------------------------
(* The machine on the images the translator generates *)

\* tick_limit of the runs of generated images
GenTickLimit == 400
\* the most digits of a line read by readInt
MaxDigits == 2
\* the tick at which the line of readInt arrives
ReadIntTick == 4
\* the last tick at which the event that pre-empts a print loop arrives
MaxPreemptTick == 200
\* the tick of the late events of the schedules of these runs
GenEvTick == 40

\* long a; int ah; long b; int bh; long c; int ch;
\* a = x; ah = xh; b = y; bh = yh; c = a + b;
\* (ah, bh and ch are the cells after a, b and c: a long is allocated one
\* word, so the cell of its high word is the next variable)
LongAddSource(x, xh, y, yh) ==
    Main(<<VarDecl("long", "a"), VarDecl("int", "ah"), VarDecl("long", "b"),
           VarDecl("int", "bh"), VarDecl("long", "c"), VarDecl("int", "ch"),
           Assign("a", IntLit(x)), Assign("ah", IntLit(xh)),
           Assign("b", IntLit(y)), Assign("bh", IntLit(yh)),
           Assign("c", BinOp("+", Var("a"), Var("b")))>>)

\* the words at the edges: 0, 1 and the largest word
EdgeWords == {0, 1, TwoW - 1}

\* r = (x == y); on literals; TwoW is 0 as a word
EqSource(x, y) == Main(<<Assign("r", BinOp("==", IntLit(x), IntLit(y)))>>)

\* i = x; r = (i == y); on a variable and a literal, below a word already
\* on the stack (readChar() as a statement leaves its word there)
EqVarSource(x, y) ==
    Main(<<Call("readChar", <<>>), Assign("i", IntLit(x)),
           Assign("r", BinOp("==", Var("i"), IntLit(y)))>>)

\* print(t) twice; print(t) in a branch not taken, then print(t);
\* print(t) in a handler that never runs, then in main; two literals
PrintSources ==
    {Main(<<PrintStr(t)>>) : t \in Texts}
    \cup {Main(<<PrintStr(<<1>>), PrintStr(<<1>>)>>),
          Main(<<PrintStr(<<1>>), PrintStr(<<2>>)>>),
          Main(<<If(IntLit(0), <<PrintStr(<<1>>)>>, None), PrintStr(<<1>>)>>),
          Main(<<If(IntLit(1), <<PrintStr(<<1>>)>>, None), PrintStr(<<1>>)>>),
          Main(<<While(IntLit(0), <<PrintStr(<<1>>)>>), PrintStr(<<1>>)>>),
          Program(<<Func("irq2", <<PrintStr(<<1>>)>>),
                    Func("main", <<PrintStr(<<1>>)>>)>>)}

\* statements a handler or main is made of
RunStmts ==
    {Assign("i", IntLit(1)), Assign("i", Call("readInt", <<>>)),
     Assign("i", BinOp("==", Var("i"), IntLit(1))),
     Call("readChar", <<>>), Call("printChar", <<Var("i")>>),
     Call("set", <<Var("v"), IntLit(0), IntLit(1)>>),
     Assign("i", Call("get", <<Var("v"), IntLit(0)>>)),
     Call("di", <<>>), Call("ei", <<>>),
     PrintInt(Var("i")), PrintStr(<<1>>),
     While(BinOp("<=", Var("i"), IntLit(1)),
           <<Assign("i", BinOp("+", Var("i"), IntLit(1))),
             If(BinOp("==", Var("i"), IntLit(2)), <<Break>>, Some(<<>>))>>)}

\* main and the handler of port CH, one statement each; main alone
HandlerSources ==
    {Program(<<Func("main", <<m>>), Func("irq1", <<h>>)>>) :
        m \in RunStmts, h \in {Assign("i", IntLit(1)), Call("readChar", <<>>),
                               PrintStr(<<1>>)}}
    \cup {Main(<<m>>) : m \in RunStmts}

\* the sources whose runs no event interrupts
QuietSources ==
    {LongAddSource(x, xh, y, yh) : x \in EdgeWords, xh \in {0, TwoW - 1},
                                   y \in EdgeWords, yh \in {0, 1}}
    \cup {EqSource(x, y) : x \in EdgeWords \cup {TwoW}, y \in EdgeWords}
    \cup {EqVarSource(x, y) : x \in EdgeWords, y \in EdgeWords}

\* main of one statement, every form the generator accepts
StmtSources == {p \in {Main(<<m>>) : m \in Simple} : ok(gen_object(p))}

\* di(); i = readInt();
ReadIntSource == Main(<<Call("di", <<>>), Assign("i", Call("readInt", <<>>))>>)

\* the characters 0, 1 and 9
DigitChars == {48, 49, 57}

\* the lines of at most MaxDigits digits and a newline, alone and followed by
\* one more character
DigitLines ==
    UNION {{Append(d, 10) : d \in [1..n -> DigitChars]} \cup
           {d \o <<10, 49>> : d \in [1..n -> DigitChars]} : n \in 0..MaxDigits}

\* the line arrives on port CH at tick ReadIntTick, while DI is executed
ReadIntSchedules ==
    {[i \in 1..Len(l) |-> Event(ReadIntTick, CH, l[i])] : l \in DigitLines}

\* main prints "\x01\x02"; the handler of port CH prints "\x03", reads a
\* string into s, or assigns
PreemptSources ==
    {Program(<<Func("main", <<PrintStr(<<1, 2>>)>>), Func("irq1", <<h>>)>>) :
        h \in {PrintStr(<<3>>), Assign("s", Call("readString", <<>>)),
               Assign("i", IntLit(1))}}

\* one event on port CH (a newline), at any tick of the run of main
PreemptSchedules == {<<Event(t, CH, 10)>> : t \in 1..MaxPreemptTick}

\* literals at the edges of the 24-bit argument field and of its sign bit
LitSamples == {2, ArgSignBit - 1, ArgSignBit, ArgSize - 1}

\* i = v;
LitSource(v) == Main(<<Assign("i", IntLit(v))>>)

LitSources == {LitSource(v) : v \in LitSamples}

RunSources ==
    QuietSources \cup PrintSources \cup HandlerSources \cup StmtSources
    \cup {ReadIntSource} \cup PreemptSources \cup LitSources

\* an event early in the run and one late in it; 10 is the newline
GenEvents == {Event(t, p, v) : t \in {1, GenEvTick}, p \in Ports, v \in {1, 10}}

GenSchedules ==
    {<<>>} \cup {<<ev>> : ev \in GenEvents}
    \cup {<<e1, e2>> : e1 \in {ev \in GenEvents : ev.tick = 1},
                       e2 \in {ev \in GenEvents : ev.tick = GenEvTick}}

\* the translator has translated prog and written the binary, run_machine
\* has loaded it
GenInit ==
    /\ prog \in RunSources
    /\ cg = gen_object(prog)
    /\ code = gen(cg)
    /\ blob = encode(code)
    /\ imem = decode(blob)
    /\ schedule \in (IF prog \in QuietSources \cup LitSources THEN {<<>>}
                     ELSE IF prog = ReadIntSource THEN ReadIntSchedules
                     ELSE IF prog \in PreemptSources THEN PreemptSchedules
                     ELSE GenSchedules)
    /\ tick_limit = GenTickLimit
    /\ trace = FALSE
    /\ trace_out = <<>>
    /\ CpuInit

\* step_tick on a generated image: the instructions gen_stmt and gen_func emit
GenNext ==
    \/ IrqDispatch
    \/ FetchIr
    \/ LatchPc
    \/ ExecPushi
    \/ ExecDup
    \/ ExecSwap
    \/ ExecAlu0
    \/ ExecAlu1
    \/ ExecAlu2
    \/ ExecLoad0
    \/ ExecLoad1
    \/ ExecLoad2
    \/ ExecStore0
    \/ ExecStore1
    \/ ExecStore2
    \/ ExecJmp
    \/ ExecJz
    \/ ExecIret
    \/ ExecEi
    \/ ExecDi
    \/ ExecIn0
    \/ ExecIn1
    \/ ExecOut0
    \/ ExecOut1
    \/ ExecHalt

GenSpec == GenInit /\ [][GenNext]_vars

----------------------------------------------------------------------------
(* Vocabulary of the claims, stated on the schedule itself *)

\* the events of the schedule for tick t, in schedule order
RECURSIVE EventsFor(_, _)
EventsFor(sch, t) ==
    IF sch = <<>> THEN <<>>
    ELSE (IF Head(sch).tick = t THEN <<Head(sch)>> ELSE <<>>)
         \o EventsFor(Tail(sch), t)

\* the values the schedule delivers to port p on tick t, in schedule order
RECURSIVE ValuesFor(_, _, _)
ValuesFor(sch, t, p) ==
    IF sch = <<>> THEN <<>>
    ELSE (IF Head(sch).tick = t /\ Head(sch).port = p
          THEN <<Head(sch).value>> ELSE <<>>)
         \o ValuesFor(Tail(sch), t, p)

\* the number of EXEC steps of an opcode (the table of the specification)
NSteps(op) ==
    IF op \in AluOps \cup {"LOAD", "STORE"} THEN 3
    ELSE IF op \in {"IN", "OUT"} THEN 2
    ELSE 1

IsWord(x) == x \in 0..(TwoW - 1)

\* this call of step_tick acknowledges an IRQ: by the branch taken, by the
\* latch being cleared, or by in_isr being raised
IrqAcknowledged ==
    \/ did' = "irq"
    \/ io.pending_irq # None /\ io'.pending_irq = None
    \/ ~in_isr /\ in_isr'

----------------------------------------------------------------------------
(* C1 *)

\* C1: an IRQ is dispatched only on a tick whose phase is FETCH_IR, and only
\* when int_enabled is true and in_isr is false: never in LATCH_PC or in an
\* EXEC step, and never while in_isr is true, whatever int_enabled is.
C1_DispatchOnlyAtFetch ==
    [][IrqAcknowledged =>
          /\ phase = FETCH_IR
          /\ int_enabled
          /\ ~in_isr
          /\ did' = "irq"]_vars

\* a handler has executed EI, a further IRQ is latched, and the machine is at
\* FETCH_IR still inside the handler
C1_Witness ==
    /\ in_isr
    /\ int_enabled
    /\ phase = FETCH_IR
    /\ io.pending_irq # None
    /\ last_ir = Some(I0("EI"))
    /\ rs # <<>>

----------------------------------------------------------------------------
(* C2 *)

\* the port the IRQ latch holds once on_tick has run on this tick
LatchedPort ==
    IF io.pending_irq # None THEN io.pending_irq[1]
    ELSE EventsFor(schedule, tick)[1].port

\* C2: when an interrupt is dispatched on tick t with pc = p and latched port
\* n, p is pushed on the return stack, pc becomes n, in_isr becomes true, the
\* latch is cleared, ir and phase stay as they were and tick becomes t+1; and
\* the step_tick call of tick t+1 fetches imem[n].
C2_DispatchThenVectorFetch ==
    [][/\ did' = "irq" =>
             /\ rs' = Append(rs, pc)
             /\ pc' = LatchedPort
             /\ in_isr'
             /\ io'.pending_irq = None
             /\ ir' = ir
             /\ phase' = phase
             /\ tick' = tick + 1
       /\ did = "irq" =>
             /\ did' = "fetch"
             /\ ir' = Some(imem[pc + 1])
             /\ tick' = tick + 1]_vars

----------------------------------------------------------------------------
(* C3 *)

\* C3: in_isr is false initially, becomes true only by an interrupt dispatch
\* and becomes false only by the EXEC step of IRET; no other step changes it.
C3_InIsrOnlyDispatchToIret ==
    /\ ~in_isr
    /\ [][/\ (~in_isr /\ in_isr') => did' = "irq"
          /\ (in_isr /\ ~in_isr') =>
                (did' = "exec" /\ phase = EXEC /\ ir = Some(I0("IRET")))
          /\ did' = "irq" => in_isr'
          /\ (did' = "exec" /\ ir = Some(I0("IRET"))) => ~in_isr']_vars

\* a RET has been executed inside a handler and in_isr is still true
C3_Witness ==
    /\ in_isr
    /\ did = "exec"
    /\ phase = FETCH_IR
    /\ last_ir = Some(I0("RET"))

----------------------------------------------------------------------------
(* C4 *)

\* C4: a latched port stays latched until the dispatch acknowledges it,
\* whatever events later ticks deliver; and with the latch empty at the start
\* of a tick that has events, the latch takes the port of the first event in
\* schedule order (the dispatch of the same tick then uses that port).
C4_LatchKeptUntilAck ==
    [][/\ (io.pending_irq # None /\ did' # "irq") =>
             io'.pending_irq = io.pending_irq
       /\ (io.pending_irq # None /\ did' = "irq") =>
             (pc' = io.pending_irq[1] /\ io'.pending_irq = None)
       /\ (io.pending_irq = None /\ EventsFor(schedule, tick) # <<>>) =>
             LET first == EventsFor(schedule, tick)[1]
             IN IF did' = "irq"
                THEN pc' = first.port /\ io'.pending_irq = None
                ELSE io'.pending_irq = Some(first.port)
       /\ (io.pending_irq = None /\ EventsFor(schedule, tick) = <<>>) =>
             io'.pending_irq = None]_vars

\* two events of one tick on different ports: the first one's port is latched,
\* and a later tick has passed
C4_Witness ==
    /\ Len(schedule) = 2
    /\ schedule[1].tick = schedule[2].tick
    /\ schedule[1].port # schedule[2].port
    /\ tick > schedule[1].tick + 1
    /\ io.pending_irq = Some(schedule[1].port)
    /\ did # "irq"

----------------------------------------------------------------------------
(* C5 *)

\* this call of step_tick runs the read step of an IN on port p
ReadsPort(p) ==
    /\ phase = EXEC
    /\ ir # None
    /\ ir[1] = Instr("IN", p)
    /\ step = 0
    /\ did' = "exec"

\* C5: every call of step_tick on tick t appends to each port's input queue
\* exactly the values the schedule holds for (t, port), in schedule order and
\* before the phase-step, whether or not an IRQ is latched, and nothing else;
\* the read step of an IN on tick t reads from the queue so extended.
C5_EventsDeliveredOnTheirTick ==
    [][\A p \in Ports :
          LET mid == DictGet(io.in_queues, p) \o ValuesFor(schedule, tick, p)
          IN IF ReadsPort(p)
             THEN /\ DictGet(io'.in_queues, p) =
                        IF mid = <<>> THEN <<>> ELSE Tail(mid)
                  /\ dp'.io_reg = IF mid = <<>> THEN 0 ELSE Mask(Head(mid))
             ELSE DictGet(io'.in_queues, p) = mid]_vars

\* an IRQ of another port is latched, and the read step of an IN has read the
\* value scheduled for the very tick of that step
C5_Witness ==
    /\ Len(schedule) = 2
    /\ schedule[1].tick < schedule[2].tick
    /\ schedule[1].port # schedule[2].port
    /\ io.pending_irq = Some(schedule[1].port)
    /\ did = "exec"
    /\ phase = EXEC
    /\ step = 1
    /\ ir = Some(Instr("IN", schedule[2].port))
    /\ tick = schedule[2].tick + 1
    /\ dp.io_reg = Mask(schedule[2].value)
    /\ DictGet(io.in_queues, schedule[2].port) = <<>>

----------------------------------------------------------------------------
(* C6 *)

\* the phase-steps of the control unit
PhaseSteps == {"irq", "fetch", "latch", "exec"}

\* C6: every call of step_tick on a machine that is not halted executes
\* exactly one phase-step and increases tick by exactly 1, and the phases of
\* an instruction follow FETCH_IR, LATCH_PC (pc += 1), EXEC steps 0..N-1, then
\* FETCH_IR again with step = 0.
C6_OnePhaseStepPerCall ==
    [][/\ did' \in PhaseSteps
       /\ tick' = tick + 1
       /\ did' = "fetch" => (phase = FETCH_IR /\ phase' = LATCH_PC)
       /\ did' = "latch" =>
             (phase = LATCH_PC /\ phase' = EXEC /\ pc' = pc + 1 /\ step' = 0)
       /\ did' = "exec" =>
             /\ phase = EXEC
             /\ IF step = NSteps(Op) - 1
                THEN \/ phase' = FETCH_IR /\ step' = 0
                     \/ Op = "HALT" /\ halted'
                ELSE phase' = EXEC /\ step' = step + 1]_vars

----------------------------------------------------------------------------
(* C7 *)

\* this call of step_tick completes the instruction in ir
Completes ==
    /\ did' = "exec"
    /\ (phase' = FETCH_IR \/ halted')

\* C7: an instruction that completes does so 2 + N ticks after the tick of
\* its fetch, N being its number of EXEC steps, and every tick in between is a
\* step of that instruction (no dispatch and no other fetch intervenes).
C7_InstructionTakesTwoPlusN ==
    [][/\ Completes => tick' - fetch_tick = 2 + NSteps(Op)
       /\ phase # FETCH_IR =>
             (did' \in {"latch", "exec"} /\ fetch_tick' = fetch_tick
              /\ ir' = ir)]_vars

\* a STORE has completed, five ticks after its fetch
C7_Witness ==
    /\ did = "exec"
    /\ phase = FETCH_IR
    /\ last_ir = Some(I0("STORE"))
    /\ tick = fetch_tick + 5

----------------------------------------------------------------------------
(* C8 *)

\* C8: the "dm conflict" assertion of dm_read and dm_write is never violated.
C8_NoDmConflict ==
    /\ err # "AssertionError: dm conflict"
    /\ dp.mem_access # "none" =>
          (did = "exec" /\ mem_step(Op, IF phase = EXEC THEN step - 1 ELSE 2))

\* the second LOAD of a run has read the memory
C8_Witness ==
    /\ dp.mem_access = "r"
    /\ last_pc = 1
    /\ imem = <<I0("LOAD"), I0("LOAD"), I0("HALT")>>

----------------------------------------------------------------------------
(* C9 *)

\* C9: the "unknown or unhandled opcode" assertion is never reached: in EXEC
\* the step counter is within the schedule of the latched opcode, and it is 0
\* in the other phases.
C9_StepWithinSchedule ==
    /\ err # "AssertionError: unknown or unhandled opcode"
    /\ err # "AttributeError"
    /\ phase = EXEC => (ir # None /\ Op \in Opcodes /\ step \in 0..(NSteps(Op) - 1))
    /\ phase # EXEC => step = 0

\* the last step of a three-step instruction is about to run
C9_Witness ==
    /\ phase = EXEC
    /\ step = 2
    /\ Op \in AluOps

----------------------------------------------------------------------------
(* C10 *)

----------------------------------------------------------------------------
(* C11 *)

\* the result the claim states for an ALU opcode on the unsigned words a and b
ClaimedResult(op, a, b) ==
    CASE op = "ADD" -> (a + b) % TwoW
      [] op = "SUB" -> (a - b) % TwoW
      [] op = "MUL" -> (a * b) % TwoW
      [] op = "DIV" -> a \div b
      [] op = "LE"  -> IF a <= b THEN 1 ELSE 0

\* this call of step_tick runs EXEC step st of an instruction whose opcode is
\* in ops
ExecStepOf(ops, st) ==
    /\ phase = EXEC
    /\ ir # None
    /\ Op \in ops
    /\ step = st
    /\ did' = "exec"

Front(s) == SubSeq(s, 1, Len(s) - 1)

\* C11: on a data stack of depth >= 2 with second element a and top b, a
\* complete ADD, SUB, MUL, DIV (b # 0) or LE replaces the two operands by the
\* single word r = (a+b) mod 2^W, (a-b) mod 2^W, (a*b) mod 2^W, floor(a/b) or
\* (1 if a <= b else 0), a and b taken unsigned, and leaves the rest of the
\* stack and all of memory unchanged.  Stated step by step: the compute step
\* latches r and leaves stack and memory alone, the second step removes b, the
\* third step puts the latched r in the place of a.
C11_AluReplacesOperands ==
    [][LET n == Len(dp.stack)
       IN /\ (ExecStepOf(AluOps, 0) /\ n >= 2
                 /\ ~(Op = "DIV" /\ dp.stack[n] = 0)) =>
                /\ tmp_alu' = ClaimedResult(Op, dp.stack[n - 1], dp.stack[n])
                /\ dp'.last_alu = tmp_alu'
                /\ dp'.stack = dp.stack
                /\ dp'.mem = dp.mem
          /\ (ExecStepOf(AluOps, 1) /\ n >= 2) =>
                /\ dp'.stack = Front(dp.stack)
                /\ tmp_alu' = tmp_alu
                /\ dp'.last_alu = dp.last_alu
                /\ dp'.mem = dp.mem
          /\ (ExecStepOf(AluOps, 2) /\ n >= 1) =>
                /\ dp'.stack = Append(Front(dp.stack), tmp_alu)
                /\ dp.last_alu = tmp_alu
                /\ dp'.mem = dp.mem
                /\ phase' = FETCH_IR]_vars

\* SUB has completed on a = 2 and b = 2^W - 1: the stack holds the single word
\* (2 - b) mod 2^W = 3
C11_Witness ==
    /\ code = ArithProg(2, -1, "SUB")
    /\ did = "exec"
    /\ phase = FETCH_IR
    /\ last_ir = Some(I0("SUB"))
    /\ last_pc = 2
    /\ dp.stack = <<(2 - (TwoW - 1)) % TwoW>>

----------------------------------------------------------------------------
(* C12 *)

\* the top of the data stack, 0 when the stack is empty
Top == IF dp.stack = <<>> THEN 0 ELSE dp.stack[Len(dp.stack)]

\* C12: DIV with top of stack b = 0 raises no trap: the compute step latches
\* the result 0 and sets the zero flag, the instruction takes its three EXEC
\* steps, pushes 0 with the zero flag set, and leaves the machine at the fetch
\* of the next instruction, running.
C12_DivByZeroYieldsZero ==
    [][/\ (phase = EXEC /\ ir # None /\ Op = "DIV") => did' = "exec"
       /\ (ExecStepOf({"DIV"}, 0) /\ Top = 0) =>
             /\ tmp_alu' = 0
             /\ dp'.zero
             /\ phase' = EXEC
             /\ step' = 1
       /\ (ExecStepOf({"DIV"}, 1) /\ Top = 0) =>
             /\ tmp_alu = 0
             /\ dp.zero
             /\ tmp_alu' = 0
             /\ phase' = EXEC
             /\ step' = 2
       /\ (ExecStepOf({"DIV"}, 2) /\ tmp_alu = 0) =>
             /\ dp'.stack # <<>>
             /\ dp'.stack[Len(dp'.stack)] = 0
             /\ Len(dp'.stack) = Max(1, Len(dp.stack))
             /\ dp'.zero
             /\ phase' = FETCH_IR
             /\ step' = 0
             /\ pc' = pc
             /\ ~halted'
             /\ err' = "none"]_vars

\* DIV has completed on a = 2^W - 1 and b = 0, three EXEC steps after its two
\* fetch phases: the stack holds the single word 0 and the machine goes on
C12_Witness ==
    /\ code = ArithProg(-1, 0, "DIV")
    /\ did = "exec"
    /\ phase = FETCH_IR
    /\ last_ir = Some(I0("DIV"))
    /\ last_pc = 2
    /\ pc = 3
    /\ tick = fetch_tick + 5
    /\ dp.stack = <<0>>
    /\ dp.zero
    /\ err = "none"
    /\ ~halted

----------------------------------------------------------------------------
(* C13 *)

\* C13: JZ sets pc to its argument if and only if the top of the stack at the
\* start of its EXEC step is 0 (an empty stack counts as 0), otherwise pc
\* keeps the value LATCH_PC gave it; taken or not, JZ removes exactly the top
\* element of a non-empty stack and leaves an empty stack empty.
C13_JzBranchesOnZeroTop ==
    [][ExecStepOf({"JZ"}, 0) =>
          /\ pc' = (IF Top = 0 THEN Arg ELSE pc)
          /\ pc = last_pc + 1
          /\ dp'.stack = (IF dp.stack = <<>> THEN <<>> ELSE Front(dp.stack))
          /\ phase' = FETCH_IR]_vars

\* JZ 3 has branched on a stack whose only element was 0, and removed it
C13_Witness ==
    /\ code = BranchProg(0)
    /\ did = "exec"
    /\ phase = FETCH_IR
    /\ last_ir = Some(Instr("JZ", 3))
    /\ last_pc = 1
    /\ pc = 3
    /\ dp.stack = <<>>

----------------------------------------------------------------------------
(* C14 *)

\* the flags are those of the word x
FlagsOf(x) ==
    /\ dp.zero = (x = 0)
    /\ dp.sign = (x >= SignBit)

\* an ALU instruction has computed and not yet popped
AluComputed ==
    /\ phase = EXEC
    /\ ir # None
    /\ Op \in AluOps
    /\ step = 1

\* C14 as stated: in every reachable state zero = (T = 0) and sign = (the top
\* bit of T is set), T being the top of the data stack (0 when it is empty).
C14_FlagsMirrorTop == FlagsOf(Top)

\* C14 amended: the flags mirror the top of the data stack in every reachable
\* state but the one between the compute step and the first pop of an ALU
\* instruction, where they are the flags of the ALU result.
C14_FlagsMirrorTopOrAluResult ==
    IF AluComputed THEN FlagsOf(dp.last_alu) /\ dp.last_alu = tmp_alu
    ELSE FlagsOf(Top)

\* SUB has computed 2^W - 1 - 2 on the stack <<2^W - 1, 2>>: the sign flag is
\* set while the top of the stack is 2
C14_Witness ==
    /\ AluComputed
    /\ Op = "SUB"
    /\ dp.stack = <<TwoW - 1, 2>>
    /\ dp.sign
    /\ ~dp.zero
    /\ dp.last_alu = TwoW - 3

----------------------------------------------------------------------------
(* C15 *)

\* C15: RET or IRET on an empty return stack is recovered locally: pc keeps
\* the value LATCH_PC gave it (the instruction after the RET/IRET is next),
\* the return stack stays empty, step_tick raises nothing, IRET still clears
\* in_isr and RET leaves it as it is.
C15_EmptyReturnStackKeepsPc ==
    [][/\ (phase = EXEC /\ ir # None /\ Op \in {"RET", "IRET"}) => did' = "exec"
       /\ (ExecStepOf({"RET", "IRET"}, 0) /\ rs = <<>>) =>
             /\ pc' = pc
             /\ pc = last_pc + 1
             /\ rs' = <<>>
             /\ err' = "none"
             /\ ~halted'
             /\ phase' = FETCH_IR
             /\ step' = 0
             /\ in_isr' = (in_isr /\ Op = "RET")]_vars

\* inside a handler whose RET has emptied the return stack, IRET has run on
\* the empty return stack: pc is at the next instruction and in_isr is clear
C15_Witness ==
    /\ code = UnderflowProg
    /\ schedule # <<>>
    /\ did = "exec"
    /\ phase = FETCH_IR
    /\ last_ir = Some(I0("IRET"))
    /\ last_pc = 2
    /\ pc = 3
    /\ rs = <<>>
    /\ ~in_isr
    /\ tick = 13
    /\ err = "none"

----------------------------------------------------------------------------
(* C16 *)

\* C16: a port's output queue changes only by the commit step of an OUT on
\* that port, which appends the value the pop step of the same OUT took from
\* the stack (0 from an empty stack): so the queue is the sequence of the
\* popped values in the order of the commits, and no step removes or
\* reorders an element.  The step after the pop step of an OUT is its commit
\* step: no interrupt dispatch and no other step comes between them.
C16_OutputInCommitOrder ==
    [][/\ \A p \in Ports :
             DictGet(io'.out_queues, p) =
                 DictGet(io.out_queues, p)
                 \o (IF ExecStepOf({"OUT"}, 1) /\ Arg = p
                     THEN <<dp.io_reg>> ELSE <<>>)
       /\ DOMAIN io'.out_queues \subseteq Ports
       /\ ExecStepOf({"OUT"}, 0) =>
             /\ dp'.io_reg = Top
             /\ dp'.stack = (IF dp.stack = <<>> THEN <<>> ELSE Front(dp.stack))
             /\ phase' = EXEC
             /\ step' = 1
             /\ ir' = ir
       /\ (phase = EXEC /\ ir # None /\ Op = "OUT" /\ step = 1) =>
             /\ did' = "exec"
             /\ did = "exec"
             /\ dp'.stack = dp.stack
             /\ phase' = FETCH_IR]_vars

\* two OUT on port CH have committed the values popped from <<2^W - 1, 2>>:
\* 2 first, then 2^W - 1
C16_Witness ==
    /\ code = OutProg(CH)
    /\ did = "exec"
    /\ phase = FETCH_IR
    /\ last_ir = Some(Instr("OUT", CH))
    /\ last_pc = 3
    /\ dp.stack = <<>>
    /\ DictGet(io.out_queues, CH) = <<2, TwoW - 1>>

----------------------------------------------------------------------------
(* C17 *)

\* the input queue of port p once the events of this tick are delivered
Delivered(p) == DictGet(io.in_queues, p) \o ValuesFor(schedule, tick, p)

\* C17: the read step of IN on port p takes the head of p's input queue (as
\* a word) and removes it, and the push step pushes that word; with the queue
\* empty IN pushes 0 and removes nothing.  No other queue loses an element,
\* and IN raises nothing and completes in its two steps.  (The queues are the
\* ones the deliveries of the tick have extended.)
C17_InReadsQueueHead ==
    [][/\ (phase = EXEC /\ ir # None /\ Op = "IN") => did' = "exec"
       /\ ExecStepOf({"IN"}, 0) =>
             /\ dp'.io_reg =
                   (IF Delivered(Arg) = <<>> THEN 0
                    ELSE Head(Delivered(Arg)) % TwoW)
             /\ \A p \in Ports :
                   DictGet(io'.in_queues, p) =
                       (IF p = Arg /\ Delivered(p) # <<>>
                        THEN Tail(Delivered(p)) ELSE Delivered(p))
             /\ dp'.stack = dp.stack
             /\ phase' = EXEC
             /\ step' = 1
       /\ ExecStepOf({"IN"}, 1) =>
             /\ dp'.stack = Append(dp.stack, dp.io_reg)
             /\ \A p \in Ports : DictGet(io'.in_queues, p) = Delivered(p)
             /\ phase' = FETCH_IR
             /\ err' = "none"]_vars

\* two values were delivered to port CH and two IN on CH have pushed them in
\* the order of their delivery; the second one is wider than a word
C17_Witness ==
    /\ code = InProg(CH)
    /\ Len(schedule) = 2
    /\ schedule[1] = Event(1, CH, 1)
    /\ schedule[2] = Event(2, CH, TwoW + 2)
    /\ did = "exec"
    /\ phase = FETCH_IR
    /\ last_ir = Some(Instr("IN", CH))
    /\ dp.stack = <<1, 2>>
    /\ DictGet(io.in_queues, CH) = <<>>

----------------------------------------------------------------------------
(* C18 *)

\* the loop of run_machine has ended: no call of step_tick follows
RunEnded == ~ENABLED Next

\* C18: the loop performs at most tick_limit phase-steps (each one adds 1 to
\* tick), it ends as soon as HALT has executed or tick has reached
\* tick_limit, and when it has ended either halted is true or tick equals
\* tick_limit and run_machine returns the output queues (no exception has
\* left the loop).
C18_RunEndsHaltedOrAtLimit ==
    /\ tick <= TickLimit
    /\ (halted \/ tick >= TickLimit) => RunEnded
    /\ RunEnded => ((halted \/ tick = TickLimit) /\ err = "none")

----------------------------------------------------------------------------
(* C19 *)

\* C19: execution is deterministic.  Two runs of one image with one schedule
\* and one tick limit start in the same state (the image and the schedule
\* fix every field of the initial state), and the state a call of step_tick
\* leaves is the only one it can leave: no other successor exists for the
\* state it was called in.  So the two runs pass through the same states,
\* output queues included.
C19_OneSuccessor ==
    [][\E nxt \in {vars'} : ~ENABLED (Next /\ vars' # nxt)]_vars

\* in mid-run a dispatch has run on a tick whose pc held an instruction: the
\* fetch was written for the same phase and did not run
C19_Witness ==
    /\ did = "irq"
    /\ tick > 1
    /\ rs # <<>>
    /\ in_imem(imem, rs[Len(rs)])
    /\ phase = FETCH_IR

----------------------------------------------------------------------------
(* C20 *)

\* the argument as a signed 24-bit value, and as an unsigned one
Signed24(a) ==
    LET u == a % ArgSize IN IF u >= ArgSignBit THEN u - ArgSize ELSE u
Unsigned24(a) == a % ArgSize

\* the argument of ins lies in the range its opcode encodes
Encodable(ins) ==
    IF ins.opcode = "PUSHI"
    THEN -ArgSignBit <= ins.arg /\ ins.arg < ArgSignBit
    ELSE 0 <= ins.arg /\ ins.arg < ArgSize

\* C20: decode(encode(code)) has the length of code, the same opcode at
\* every index, and the same argument read as a signed 24-bit value for PUSHI
\* and as an unsigned 24-bit value for the other opcodes; so an instruction
\* whose argument lies in that range comes back unchanged, and the binary
\* has four bytes for each instruction.
C20_DecodeInvertsEncode ==
    /\ did # "init" => Len(blob) = 4 * Len(code)
    /\ did = "decode" =>
          /\ Len(imem) = Len(code)
          /\ \A i \in 1..Len(code) :
                /\ imem[i].opcode = code[i].opcode
                /\ imem[i].arg =
                      (IF code[i].opcode = "PUSHI" THEN Signed24(code[i].arg)
                       ELSE Unsigned24(code[i].arg))
                /\ Encodable(code[i]) => imem[i] = code[i]

\* a list of two instructions has been encoded and decoded: a PUSHI of the
\* least signed 24-bit value and a JMP to the greatest unsigned one
C20_Witness ==
    /\ did = "decode"
    /\ code = <<Instr("PUSHI", -ArgSignBit), Instr("JMP", ArgSize - 1)>>
    /\ imem = code
    /\ blob = <<0, 0, 128, 1, 255, 255, 255, 32>>

----------------------------------------------------------------------------
(* Claims about the translator *)

\* cg.gen has returned and the binary is written
Translated == did \in {"encode", "decode"}

\* the function name has a label
HasLabel(name) == name \in DOMAIN cg.labels

IsJump(ins) == ins.opcode \in {"JMP", "JZ", "CALL"}

\* the function whose address slot i - 1 of the vector table holds
SlotName(i) == IF i = 1 THEN "main" ELSE irq_name(i - 1)

\* C22 as stated: every JMP, JZ and CALL of the image, the vector table
\* included, has an argument >= DEFAULT_NUM_VECTORS, and every one in user
\* code targets an instruction of the image.
C22_JumpArgsBeyondTable ==
    Translated =>
        \A i \in 1..Len(code) :
            IsJump(code[i]) =>
                /\ code[i].arg >= DEFAULT_NUM_VECTORS
                /\ i > DEFAULT_NUM_VECTORS => code[i].arg < Len(code)

\* C22, amended: every JMP, JZ and CALL in user code has an argument >=
\* DEFAULT_NUM_VECTORS that is the address of an instruction of the image; a
\* slot of the vector table has such an argument exactly when its function
\* (main for slot 0, irqN for slot N) exists, and is the default entry JMP 0
\* otherwise.
C22_UserJumpArgsBeyondTable ==
    Translated =>
        \A i \in 1..Len(code) :
            IF i > DEFAULT_NUM_VECTORS
            THEN IsJump(code[i]) =>
                     /\ code[i].arg >= DEFAULT_NUM_VECTORS
                     /\ code[i].arg < Len(code)
            ELSE IF HasLabel(SlotName(i))
            THEN /\ code[i].opcode = "JMP"
                 /\ code[i].arg >= DEFAULT_NUM_VECTORS
                 /\ code[i].arg < Len(code)
            ELSE code[i] = Instr("JMP", 0)

\* a translated program with a conditional and an unconditional jump in user
\* code, whose slot 1 is a default entry
C22_Witness ==
    /\ Translated
    /\ HasLabel("main") /\ ~HasLabel("irq1")
    /\ code[2] = Instr("JMP", 0)
    /\ \E i, j \in (DEFAULT_NUM_VECTORS + 1)..Len(code) :
          /\ code[i].opcode = "JZ" /\ code[i].arg > j - 1
          /\ code[j].opcode = "JMP" /\ code[j].arg < j - 1

(***************************************************************************)
(* Claims about generated programs at run time                             *)
(***************************************************************************)

\* the word of a data memory at an address (cells never written read as zero)
MemOf(d, a) == IF a < Len(d.mem) THEN d.mem[a + 1] ELSE 0

MemAt(a) == MemOf(dp, a)

\* the program is a long addition c = a + b over separate cells and has
\* run to its HALT
LongAddDone ==
    /\ \E x \in EdgeWords, xh \in {0, TwoW - 1}, y \in EdgeWords, yh \in {0, 1} :
          prog = LongAddSource(x, xh, y, yh)
    /\ halted
    /\ err = "none"

\* the carry out of the low words of a and b
LowCarry == IF MemAt(cg.vars["a"]) + MemAt(cg.vars["b"]) >= TwoW THEN 1 ELSE 0

\* C23: a long addition c = a + b stores (a_lo + b_lo) mod 2^W at addr(c)
\* and (a_hi + b_hi + carry) mod 2^W at addr(c)+1, where carry is 1 exactly
\* when the low sum wrapped; a and b keep their words, so the operands are
\* read after the run.
C23_LongAddWithCarry ==
    LongAddDone =>
        /\ MemAt(cg.vars["c"]) =
              (MemAt(cg.vars["a"]) + MemAt(cg.vars["b"])) % TwoW
        /\ MemAt(cg.vars["c"] + 1) =
              (MemAt(cg.vars["a"] + 1) + MemAt(cg.vars["b"] + 1) + LowCarry) % TwoW

\* the low word alone: the part of C23 the generated code does get right
C23_LowWord ==
    LongAddDone =>
        MemAt(cg.vars["c"]) = (MemAt(cg.vars["a"]) + MemAt(cg.vars["b"])) % TwoW

\* the operands still hold the assigned words when the run ends
C23_OperandsKept ==
    \A x \in EdgeWords, xh \in {0, TwoW - 1}, y \in EdgeWords, yh \in {0, 1} :
        (prog = LongAddSource(x, xh, y, yh) /\ halted /\ err = "none") =>
            /\ MemAt(cg.vars["a"]) = x /\ MemAt(cg.vars["a"] + 1) = xh
            /\ MemAt(cg.vars["b"]) = y /\ MemAt(cg.vars["b"] + 1) = yh

\* the words the claim gives a variable of the declared type
WordsOf(vtype) == IF vtype = "long" THEN 2 ELSE 1

\* the bases of the buffers allocated for the string variable n: a
\* declaration stores each into the cell of n by PUSHI base; PUSHI addr(n);
\* STORE, and the object keeps no other record of them
StringBuffers(n) ==
    {cg.code[i].arg : i \in {j \in 1..(Len(cg.code) - 2) :
                                /\ cg.code[j].opcode = "PUSHI"
                                /\ cg.code[j + 1] = Instr("PUSHI", cg.vars[n])
                                /\ cg.code[j + 2].opcode = "STORE"}}

\* the storage of the translated program: the cell(s) of every variable, the
\* 64-word buffers of every string variable, the 128-word buffer of every
\* array and the len+1 words before the pointer of every string literal
Regions ==
    {[name |-> <<"variable", n>>, base |-> cg.vars[n],
      words |-> IF n \in DOMAIN cg.var_types THEN WordsOf(cg.var_types[n]) ELSE 1] :
        n \in DOMAIN cg.vars}
    \cup UNION {{[name |-> <<"buffer", n>>, base |-> b, words |-> 64] :
                    b \in StringBuffers(n)} :
                n \in {m \in DOMAIN cg.var_types : cg.var_types[m] = "string"}}
    \cup {[name |-> <<"array", n>>, base |-> cg.array_bases[n], words |-> 128] :
            n \in DOMAIN cg.array_bases}
    \cup {[name |-> <<"literal", t>>, base |-> cg.string_bases[t] - (Len(t) + 1),
           words |-> Len(t) + 1] : t \in DOMAIN cg.string_bases}

Disjoint(r, s) == r.base + r.words <= s.base \/ s.base + s.words <= r.base

\* C24: every variable and buffer has its own storage of the specified size
\* (a long two words): the regions lie below data_next and are pairwise
\* disjoint.
C24_OwnStorage ==
    (did \in {"encode", "decode", "raise"}) =>
        /\ \A r \in Regions : 0 <= r.base /\ r.base + r.words <= cg.data_next
        /\ \A r, s \in Regions : r # s => Disjoint(r, s)

\* the same with one word for a long, which is what alloc_var gives it
C24_OwnStorageOneWordLongs ==
    (did \in {"encode", "decode", "raise"}) =>
        LET one == {[r EXCEPT !.words = IF @ = 2 THEN 1 ELSE @] : r \in Regions}
        IN /\ \A r \in one : 0 <= r.base /\ r.base + r.words <= cg.data_next
           /\ \A r, s \in one : r # s => Disjoint(r, s)

\* long a; int i;  places i at the high word of a
C24_LongThenInt ==
    /\ did = "encode"
    /\ prog = Main(<<VarDecl("long", "a"), VarDecl("int", "i")>>)
    /\ cg.vars["i"] = cg.vars["a"] + 1

\* the body of main
MainBody(p) ==
    (CHOOSE f \in {p.functions[i] : i \in DOMAIN p.functions} : f.name = "main").body

RECURSIVE Printed(_)

\* the characters the print statements executed in a body are to write: the
\* body consists of print statements and of conditionals and loops over
\* literal conditions, a loop being one whose condition is 0
Printed(body) ==
    IF body = <<>> THEN <<>>
    ELSE (CASE Head(body).k = "PrintStr" -> Head(body).text
            [] Head(body).k = "If" ->
                 IF Head(body).cond.value # 0 THEN Printed(Head(body).then_body)
                 ELSE IF Head(body).else_body = None THEN <<>>
                 ELSE Printed(Head(body).else_body[1])
            [] OTHER -> <<>>) \o Printed(Tail(body))

\* a program of print statements has run to its HALT and no event arrived
PrintsDone ==
    /\ prog \in PrintSources
    /\ schedule = <<>>
    /\ halted
    /\ err = "none"

\* C25: every print(text) executed to completion without an interrupt appends
\* exactly the characters of text to the output of port CH and nothing to
\* another port, also when the literal occurs earlier in the text of the
\* program, executed or not.
C25_PrintStrWritesText ==
    PrintsDone =>
        /\ DictGet(io.out_queues, CH) = Printed(MainBody(prog))
        /\ \A p \in DOMAIN io.out_queues : p # CH => io.out_queues[p] = <<>>

\* the same when the first occurrence of every literal in the program text
\* is one that is executed
C25_FirstOccurrenceExecuted ==
    (PrintsDone /\ \A i \in DOMAIN MainBody(prog) : MainBody(prog)[i].k = "PrintStr"
                /\ Len(prog.functions) = 1) =>
        DictGet(io.out_queues, CH) = Printed(MainBody(prog))

\* if (0) { print("A"); } print("A");  has halted and written nothing
C25_SkippedLiteral ==
    /\ PrintsDone
    /\ prog = Main(<<If(IntLit(0), <<PrintStr(<<1>>)>>, None), PrintStr(<<1>>)>>)
    /\ DictGet(io.out_queues, CH) = <<>>

\* the number of data_pop calls step_tick makes in the EXEC step st of op
pops(op, st) ==
    CASE op = "SWAP" /\ st = 0 -> 2
      [] op \in {"DROP", "JZ", "OUT"} /\ st = 0 -> 1
      [] op \in AluOps /\ st \in {1, 2} -> 1
      [] op = "LOAD" /\ st = 2 -> 1
      [] op = "STORE" /\ st \in {0, 1} -> 1
      [] OTHER -> 0

\* the machine is about to execute a step of an instruction
AtExec == Running /\ phase = EXEC /\ ir # None

GenNoOtherStep == ~ENABLED (StepRaises \/ ExecNop \/ ExecDrop \/ ExecCall \/ ExecRet)

\* the machine is about to execute step st of the instruction op
AtStep(op, st) == AtExec /\ Op = op /\ step = st

\* the steps of STORE: the address a is popped, the value v is popped, v is
\* written at a and no other word changes
StoreSteps ==
    /\ (AtStep("STORE", 0) /\ dp.stack # <<>>) =>
          tmp_addr' = Top /\ dp'.ar = Top /\ dp'.stack = Front(dp.stack)
    /\ (AtStep("STORE", 1) /\ dp.stack # <<>>) =>
          /\ tmp_val' = Top /\ dp'.stack = Front(dp.stack)
          /\ tmp_addr' = tmp_addr /\ dp'.ar = dp.ar
    /\ AtStep("STORE", 2) =>
          /\ dp'.stack = dp.stack
          /\ dp.ar = tmp_addr
          /\ \A b \in 0..(TwoW - 1) :
                MemOf(dp', b) = IF b = tmp_addr THEN tmp_val ELSE MemOf(dp, b)

\* the steps of LOAD: the address a is latched, the word at a is read, a is
\* replaced by that word
LoadSteps ==
    /\ (AtStep("LOAD", 0) /\ dp.stack # <<>>) =>
          dp'.ar = Top /\ dp'.stack = dp.stack
    /\ AtStep("LOAD", 1) => dp'.ar = dp.ar /\ dp'.stack = dp.stack
    /\ (AtStep("LOAD", 2) /\ dp.stack # <<>>) =>
          dp'.stack = Append(Front(dp.stack), MemOf(dp, dp.ar))

C27_ZeroAtStart == tick = 0 => \A b \in 0..(TwoW - 1) : MemAt(b) = 0

AtDispatch == Running /\ phase = FETCH_IR /\ irq_taken(int_enabled, in_isr, IO1)

\* C28: CALL at address a pushes a+1 on the return stack and sets pc to its
\* argument; a dispatch pushes the address of the instruction it pre-empts;
\* RET and IRET on a non-empty return stack pop its last entry into pc; no
\* other step changes the return stack, so it is used last-in first-out and
\* with nested calls and handlers every RET or IRET resumes at the address
\* its own CALL or dispatch saved.
C28_ReturnStackLifo ==
    [][/\ AtStep("CALL", 0) => rs' = Append(rs, last_pc + 1) /\ pc' = Arg
       /\ AtDispatch => rs' = Append(rs, pc) /\ pc' = irq_pending(IO1)[1]
       /\ ((AtStep("RET", 0) \/ AtStep("IRET", 0)) /\ rs # <<>>) =>
             pc' = rs[Len(rs)] /\ rs' = Front(rs)
       /\ ~(AtStep("CALL", 0) \/ AtDispatch \/ AtStep("RET", 0) \/ AtStep("IRET", 0))
             => rs' = rs]_vars

\* CALL 2; HALT; RET with a handler entered at the RET: the return stack
\* holds the address after the CALL and above it the address the dispatch
\* saved, and the RET of the handler is about to run
C28_Witness ==
    /\ code = <<Instr("CALL", 2), I0("HALT"), I0("RET")>>
    /\ AtStep("RET", 0)
    /\ in_isr
    /\ rs = <<1, 2>>

\* a jump the claim fixes: the instruction at pos of the generated code is
\* opcode with the argument arg (positions before relocation)
Jump(pos, opcode, arg) == [pos |-> pos, opcode |-> opcode, arg |-> arg]

\* the object from which the body of the loop s is generated, g being the
\* object before the loop, and the one from which the branches of the
\* conditional s are generated
BeforeBody(g, s) == open_breaks(emit(gen_expr(g, s.cond), "JZ", 0))
BeforeThen(g, s) == emit(gen_expr(g, s.cond), "JZ", 0)
BeforeElse(g, s) == emit(gen_stmts(BeforeThen(g, s), s.then_body), "JMP", 0)

RECURSIVE BodyJumps(_, _, _)

\* the jumps fixed for the statements of a body generated from g, end being
\* the first position after the innermost loop around them: of a loop its JZ
\* (to the position after the loop), its closing JMP (to the condition) and
\* the jumps of its body; of a conditional the jumps of its branches; of a
\* break a JMP to end
BodyJumps(g, body, end) ==
    IF body = <<>> THEN {}
    ELSE (IF Head(body).k = "While"
          THEN {Jump(Len(gen_expr(g, Head(body).cond).code), "JZ",
                     Len(gen_stmt(g, Head(body)).code)),
                Jump(Len(gen_stmt(g, Head(body)).code) - 1, "JMP", Len(g.code))}
               \cup BodyJumps(BeforeBody(g, Head(body)), Head(body).body,
                              Len(gen_stmt(g, Head(body)).code))
          ELSE IF Head(body).k = "If"
          THEN BodyJumps(BeforeThen(g, Head(body)), Head(body).then_body, end)
               \cup (IF Head(body).else_body = None THEN {}
                     ELSE BodyJumps(BeforeElse(g, Head(body)),
                                    Head(body).else_body[1], end))
          ELSE IF Head(body).k = "Break" THEN {Jump(Len(g.code), "JMP", end)}
          ELSE {})
         \cup BodyJumps(gen_stmt(g, Head(body)), Tail(body), end)

RECURSIVE ProgramJumps(_, _)

\* the jumps fixed for the functions generated from g
ProgramJumps(g, functions) ==
    IF functions = <<>> THEN {}
    ELSE BodyJumps(g, Head(functions).body, -1)
         \cup ProgramJumps(gen_func(g, Head(functions)), Tail(functions))

RECURSIVE BreakOutside(_)

\* a body holds a break that no loop encloses
BreakOutside(body) ==
    \E i \in DOMAIN body :
        \/ body[i].k = "Break"
        \/ /\ body[i].k = "If"
           /\ \/ BreakOutside(body[i].then_body)
              \/ body[i].else_body # None /\ BreakOutside(body[i].else_body[1])

\* C29: in the image of a translated program the JZ of every loop targets
\* the first instruction after the loop, its closing JMP the first
\* instruction of its condition and every break (direct or in if/else) the
\* first instruction after its innermost loop; break_stack is empty at the
\* end; a program with a break outside every loop is not translated: the
\* generator raises.
C29_LoopJumps ==
    /\ Translated =>
          /\ \A j \in ProgramJumps(Codegen, prog.functions) :
                code[DEFAULT_NUM_VECTORS + j.pos + 1] =
                    Instr(j.opcode, DEFAULT_NUM_VECTORS + j.arg)
          /\ cg.break_stack = <<>>
    /\ (did # "init"
        /\ \E i \in DOMAIN prog.functions : BreakOutside(prog.functions[i].body)) =>
          did = "raise" /\ ~ok(cg) /\ err = cg.err

\* a break alone in main: NotImplementedError, and no jump was emitted
C29_BreakAlone ==
    (did = "raise" /\ prog = Main(<<Break>>)) =>
        err = "NotImplementedError" /\ cg.code = <<>>

\* a translated loop in a loop, a break in each: six jumps are fixed and the
\* two breaks have different targets
C29_Witness ==
    /\ Translated
    /\ \E c \in LoopConds, d \in LoopConds :
          prog = Main(<<While(c, <<While(d, <<Break>>), Break>>)>>)
    /\ Cardinality(ProgramJumps(Codegen, prog.functions)) = 6
    /\ Cardinality({j.arg : j \in ProgramJumps(Codegen, prog.functions)}) = 4

\* a translated loop whose breaks lie in both branches of a conditional and
\* after it
C29_WitnessIf ==
    /\ Translated
    /\ \E c \in LoopConds :
          prog = Main(<<While(c, <<If(IntLit(1), <<Break>>, Some(<<Break>>)), Break>>)>>)
    /\ Cardinality(ProgramJumps(Codegen, prog.functions)) = 5

\* a program with a break outside every loop, rejected
C29_WitnessRaise ==
    /\ did = "raise"
    /\ prog = Main(<<If(IntLit(1), <<Break>>, None)>>)
    /\ err = "NotImplementedError"

\* the address in the image of the first instruction after the code of the
\* expression of the last statement of main, an assignment
AfterExpr(p) ==
    DEFAULT_NUM_VECTORS
    + Len(gen_expr(gen_stmts(Codegen, Front(MainBody(p))),
                   MainBody(p)[Len(MainBody(p))].expr).code)

\* the code of the expression has just been executed
ExprDone == phase = FETCH_IR /\ pc = AfterExpr(prog) /\ tick > 0

\* the word a == b is to leave
EqWord(a, b) == IF a % TwoW = b % TwoW THEN 1 ELSE 0

\* C30: the code of a == b, run without interruption, leaves exactly one new
\* word on the data stack, 1 if a and b are equal as words and 0 otherwise;
\* the difference is gone on both paths.  On an empty stack for two
\* literals, above the word 0 left by readChar() for a variable and a
\* literal.
C30_EqualityWord ==
    /\ \A x \in EdgeWords \cup {TwoW}, y \in EdgeWords :
          (prog = EqSource(x, y) /\ ExprDone) => dp.stack = <<EqWord(x, y)>>
    /\ \A x \in EdgeWords, y \in EdgeWords :
          (prog = EqVarSource(x, y) /\ ExprDone) => dp.stack = <<0, EqWord(x, y)>>

\* 2^W == 0 has left 1: the operands are equal as words only
C30_Witness ==
    /\ prog = EqSource(TwoW, 0)
    /\ ExprDone
    /\ dp.stack = <<1>>
    /\ last_ir = Some(Instr("PUSHI", 1))

\* i == 1 with i = 0 has left 0 above the word that was on the stack
C30_WitnessUnequal ==
    /\ prog = EqVarSource(0, 1)
    /\ ExprDone
    /\ dp.stack = <<0, 0>>
    /\ last_ir = Some(Instr("JMP", AfterExpr(prog)))

(***************************************************************************)
(* Claims about the runtime sequences and the run as a whole               *)
(***************************************************************************)

\* the values of a schedule, in order
ValuesOf(sched) == [i \in 1..Len(sched) |-> sched[i].value]

\* the position of the first newline of a line
NewlineAt(l) == CHOOSE i \in 1..Len(l) : l[i] = 10 /\ \A j \in 1..(i - 1) : l[j] # 10

RECURSIVE DecimalValue(_)

\* the number the digit characters d denote
DecimalValue(d) ==
    IF d = <<>> THEN 0
    ELSE 10 * DecimalValue(SubSeq(d, 1, Len(d) - 1)) + (d[Len(d)] - 48)

\* di(); i = readInt(); with the line in the queue of port CH before the
\* loop starts; DI keeps every interrupt from being dispatched
ReadIntRun == prog = ReadIntSource /\ ~in_isr

\* C31: with the digits d1..dn and a newline in the queue of port CH before
\* the readInt loop starts and no interrupt dispatched, the loop ends within
\* the run, has consumed exactly these n+1 values and has pushed exactly one
\* word, the decimal value of d1..dn modulo 2^W.
C31_ReadIntValue ==
    /\ (ReadIntRun /\ ExprDone) =>
          /\ dp.stack = <<DecimalValue(SubSeq(ValuesOf(schedule), 1,
                                              NewlineAt(ValuesOf(schedule)) - 1))
                          % TwoW>>
          /\ DictGet(io.in_queues, CH) =
                SubSeq(ValuesOf(schedule), NewlineAt(ValuesOf(schedule)) + 1,
                       Len(schedule))
    /\ ReadIntRun => (halted \/ tick < tick_limit)

\* the line 99 and a character after it: 99 modulo 2^W is on the stack and
\* the character after the newline is still in the queue
C31_Witness ==
    /\ ReadIntRun
    /\ ExprDone
    /\ ValuesOf(schedule) = <<57, 57, 10, 49>>
    /\ dp.stack = <<99 % TwoW>>
    /\ io.in_queues[CH] = <<49>>

----------------------------------------------------------------------------
(* Claims about the run as a whole *)

\* an iteration of the loop of run_machine is entered and its step_tick
\* would return normally
Iteration == Running /\ StepError = "none"

\* C32: in each iteration of the runner loop the per-tick memory-access flag
\* is cleared and the events of the current tick are delivered, one
\* phase-step is executed, which adds 1 to tick, and only then the trace line
\* is emitted: with trace set, every iteration adds one line to the trace
\* after its phase-step.
C32_TraceAfterStep ==
    [][Iteration =>
          /\ tick' = tick + 1
          /\ trace => Len(trace_out') = Len(trace_out) + 1]_vars

\* C32, the part the code keeps: without trace an iteration starts from the
\* cleared access flag and the delivered events of the current tick and adds
\* 1 to tick
C32_UntracedOrder ==
    [][(Iteration /\ ~trace) =>
          /\ tick' = tick + 1
          /\ dp'.mem_access # "none" => phase = EXEC
          /\ \A i \in 1..Len(schedule) :
                schedule[i].tick = tick => schedule[i].port \in DOMAIN io'.in_queues]_vars

\* a traced run of a lone HALT has stopped before its first phase-step
C32_TracedRunStopped ==
    /\ trace
    /\ code = <<I0("HALT")>>
    /\ tick = 0
    /\ ~halted
    /\ err = "AttributeError"
    /\ trace_out = <<>>

\* C33: halted is absorbing. HALT sets halted on its single EXEC step, which
\* adds 1 to tick and changes nothing else of the machine but what the start
\* of every step does (access flag cleared, events of the tick delivered);
\* every step_tick call on a halted machine leaves the whole machine as it
\* is: tick, pc, phase, both stacks, flags, memory, the input queues, the
\* pending-IRQ latch and the output queues.
C33_HaltedAbsorbing ==
    [][/\ AtStep("HALT", 0) =>
            /\ halted'
            /\ tick' = tick + 1
            /\ dp' = D0
            /\ io' = IO1
            /\ UNCHANGED <<rs, pc, ir, phase, step, int_enabled, in_isr, armed_at>>
       /\ halted =>
            UNCHANGED <<dp, io, rs, pc, ir, tick, phase, step, halted, int_enabled,
                        in_isr, armed_at, err>>]_vars

\* a halted machine below the tick limit with a scheduled event still to come
C33_Witness ==
    /\ halted
    /\ did = "exec"
    /\ tick < tick_limit
    /\ \E i \in 1..Len(schedule) : schedule[i].tick >= tick
    /\ DictGet(io.in_queues, CH) = <<>>

\* C34: at every instruction boundary, that is in every reachable state whose
\* phase is FETCH_IR or LATCH_PC, zero = (T = 0) and sign = (the top bit of T
\* is set), T being the top of the data stack (0 when it is empty); the flags
\* differ from those of T only inside the EXEC steps of an ALU instruction,
\* after its compute step and before its final push.
C34_FlagsAtBoundary ==
    /\ phase \in {FETCH_IR, LATCH_PC} => (FlagsOf(Top) /\ dp.t = Top)
    /\ ~FlagsOf(Top) => (phase = EXEC /\ ir # None /\ Op \in AluOps /\ step \in {1, 2})

\* the boundary after SUB has left 2^W - 3 on the stack: the sign flag is the
\* top bit of the new top
C34_Witness ==
    /\ phase = FETCH_IR
    /\ last_ir # None
    /\ last_ir[1].opcode = "SUB"
    /\ did = "exec"
    /\ dp.stack = <<TwoW - 3>>
    /\ dp.sign
    /\ ~dp.zero

\* the handler entered by the last dispatch is about to execute the IRET that
\* ends it: the return stack is one entry deeper than the dispatch found it
HandlerEnds ==
    /\ AtStep("IRET", 0)
    /\ in_isr
    /\ at_irq # None
    /\ Len(rs) = Len(at_irq[1].rs) + 1

\* C35: interrupts are transparent to the interrupted code. When a handler
\* entered by a dispatch has left the data stack with the contents it found
\* and ends with its IRET, then right after that IRET pc is the pc at the
\* dispatch and the machine is at the fetch of that instruction, the return
\* stack is as it was before the dispatch, and T, S, zero and sign have their
\* values of before the dispatch (a JZ that follows takes the same branch).
C35_Transparent ==
    [][(HandlerEnds /\ dp.stack = at_irq[1].stack) =>
          /\ pc' = at_irq[1].pc
          /\ phase' = FETCH_IR
          /\ ~in_isr'
          /\ rs' = at_irq[1].rs
          /\ dp'.stack = at_irq[1].stack
          /\ dp'.t = at_irq[1].t
          /\ dp'.s = at_irq[1].s
          /\ dp'.zero = at_irq[1].zero
          /\ dp'.sign = at_irq[1].sign]_vars

\* a handler that pushed and popped has returned to a JZ pre-empted with a
\* word on the stack: the flags are again those of that word
C35_Witness ==
    /\ phase = FETCH_IR
    /\ did = "exec"
    /\ last_ir # None
    /\ last_ir[1].opcode = "IRET"
    /\ ~in_isr
    /\ at_irq # None
    /\ at_irq[1].stack # <<>>
    /\ dp.stack = at_irq[1].stack
    /\ pc = at_irq[1].pc
    /\ in_imem(imem, pc)
    /\ imem_at(imem, pc).opcode = "JZ"
    /\ dp.zero = at_irq[1].zero

\* the tick of the last dispatch, which emptied the latch (-1 before the first)
LastAck == IF at_irq = None THEN -1 ELSE at_irq[1].tick

\* the ticks of the events delivered since the latch was last emptied, the
\* events of the current tick included
LatchTicks ==
    {schedule[i].tick : i \in {j \in 1..Len(schedule) :
                                  LastAck < schedule[j].tick /\ schedule[j].tick <= tick}}

\* the tick at which the pending IRQ was latched: the first of them
LatchTick == CHOOSE t \in LatchTicks : \A u \in LatchTicks : t <= u

\* an IRQ is pending in this call of step_tick, and int_enabled has been true
\* and in_isr false from the tick of the latch on
PendingArmed ==
    /\ Running
    /\ IO1.pending_irq # None
    /\ int_enabled
    /\ ~in_isr
    /\ armed_at <= LatchTick

\* the latch holds an IRQ exactly when an event has been delivered since the
\* last dispatch
C36_LatchTickDefined == Running => ((IO1.pending_irq # None) <=> (LatchTicks # {}))

\* C36: bounded interrupt response. An IRQ latched at tick t, with
\* int_enabled true and in_isr false from t on, is dispatched at the first
\* tick >= t whose phase is FETCH_IR, at most 4 ticks after t, and no
\* instruction is fetched before the dispatch: every call of step_tick made
\* while it is pending is within 4 ticks of t, is the dispatch when the phase
\* is FETCH_IR, and is a step of the instruction in progress otherwise.
C36_BoundedResponse ==
    [][PendingArmed =>
          /\ tick - LatchTick <= 4
          /\ phase = FETCH_IR => (did' = "irq" /\ pc' = IO1.pending_irq[1])
          /\ phase # FETCH_IR => did' \in {"latch", "exec", "raise"}]_vars

\* an IRQ latched on the LATCH_PC tick of a three-step instruction has been
\* dispatched 4 ticks later
C36_Witness ==
    /\ did = "irq"
    /\ Len(schedule) = 1
    /\ at_irq[1].tick = schedule[1].tick + 4
    /\ armed_at = 0

\* C37: in a program produced by the code generator whose irqN handler bodies
\* terminate, every interrupt dispatch is followed by an IRET that clears
\* in_isr, whatever the port 1..V-1 of the event, ports without an irqN
\* handler included. Stated on the runs that end: a machine that main's HALT
\* has halted has returned from every dispatch, so in_isr is false.
C37_DispatchReturns == halted => ~in_isr

\* C37 for the ports the program handles: a run whose last dispatch went to
\* an irqN function of the program ends with in_isr false
C37_HandledDispatchReturns ==
    (halted /\ at_irq # None /\ HasLabel(irq_name(at_irq[1].port))) => ~in_isr

\* main has been restarted by the default vector of a port without handler
\* and has halted inside the interrupt
C37_HaltedInIsr ==
    /\ halted
    /\ in_isr
    /\ at_irq # None
    /\ ~HasLabel(irq_name(at_irq[1].port))
    /\ rs = <<at_irq[1].pc>>

\* a handled dispatch has returned and main has halted
C37_HandledReturned ==
    /\ halted
    /\ ~in_isr
    /\ at_irq # None
    /\ HasLabel(irq_name(at_irq[1].port))
    /\ rs = <<>>

\* main has run to its HALT and no interrupt was dispatched
RanUninterrupted == halted /\ at_irq = None

\* C38: the code generated for every statement is stack-neutral: when it has
\* run to completion without an interrupt the data stack is as it was before
\* the statement (print of a string, long addition and a readChar call used as
\* a statement included). Main starts on the empty stack, so a main that has
\* run to its HALT without an interrupt has left the stack empty.
C38_StackNeutral == RanUninterrupted => dp.stack = <<>>

\* the statements that leave words: print of a string, readChar() as a
\* statement, and the assignment of a sum to a variable declared long
LeavesWords(body, st) ==
    \/ st.k = "PrintStr"
    \/ st.k = "Call" /\ st.name = "readChar"
    \/ /\ st.k = "Assign"
       /\ st.expr.k = "BinOp"
       /\ st.expr.op = "+"
       /\ \E i \in DOMAIN body : body[i] = VarDecl("long", st.name)

\* C38 for the other statements: a main made of them leaves the stack empty
C38_OtherStatementsNeutral ==
    (RanUninterrupted
     /\ \A i \in DOMAIN MainBody(prog) : ~LeavesWords(MainBody(prog), MainBody(prog)[i]))
        => dp.stack = <<>>

\* every print of a string leaves one word: the terminator it read
C38_PrintLeavesTerminator ==
    /\ RanUninterrupted
    /\ MainBody(prog) = <<PrintStr(<<1>>), PrintStr(<<1>>)>>
    /\ dp.stack = <<0, 0>>

\* a long addition leaves five words
C38_LongAddLeavesWords ==
    /\ RanUninterrupted
    /\ prog = LongAddSource(1, 0, 1, 0)
    /\ Len(dp.stack) = 5

\* the handler of port CH of the program
HandlerBody(p) ==
    (CHOOSE f \in {p.functions[i] : i \in DOMAIN p.functions} : f.name = "irq1").body

\* the characters main has written to port CH: those of the output that are
\* characters of the texts main prints
MainOutput ==
    SelectSeq(DictGet(io.out_queues, CH),
              LAMBDA c : \E i \in DOMAIN Printed(MainBody(prog)) :
                            c = Printed(MainBody(prog))[i])

\* the place in the image of the JZ of main's print loop (main comes first)
MainJz ==
    CHOOSE j \in 1..Len(code) :
        code[j].opcode = "JZ" /\ \A k \in 1..(j - 1) : code[k].opcode # "JZ"

\* address a lies in main's print loop: from the load of the pointer, four
\* instructions before the JZ, to the closing JMP before the target of the JZ
InMainLoop(a) == MainJz - 5 <= a /\ a < code[MainJz].arg

\* main, pre-empted inside its print loop by the handler of port CH, has run
\* to its HALT
PreemptedDone ==
    /\ prog \in PreemptSources
    /\ halted
    /\ ~in_isr
    /\ at_irq # None
    /\ InMainLoop(at_irq[1].pc)

\* C39: pre-emption does not corrupt the runtime sequences of the
\* interrupted code. When an irq handler that itself prints a string or reads
\* a string is dispatched while main is inside a print loop, main still
\* writes the remaining characters of its own string: what main has written
\* to port CH when it halts is what it writes in a run without interrupts.
C39_PreemptedPrintIntact == PreemptedDone => MainOutput = Printed(MainBody(prog))

\* C39 for a handler without a runtime sequence of its own
C39_AssigningHandler ==
    (PreemptedDone /\ HandlerBody(prog) = <<Assign("i", IntLit(1))>>)
        => MainOutput = Printed(MainBody(prog))


\* the handler printed inside main's loop: main has lost its second character
C39_PrintCutShort ==
    /\ PreemptedDone
    /\ HandlerBody(prog) = <<PrintStr(<<3>>)>>
    /\ DictGet(io.out_queues, CH) = <<1, 3>>

\* the handler has returned into main's print loop, which had written its
\* first character, with the pointer cell of the loop changed
C39_PointerOverwritten ==
    /\ prog \in PreemptSources
    /\ HandlerBody(prog) = <<PrintStr(<<3>>)>>
    /\ did = "exec"
    /\ last_ir = Some(I0("IRET"))
    /\ ~in_isr
    /\ InMainLoop(at_irq[1].pc)
    /\ DictGet(io.out_queues, CH) = <<1, 3>>
    /\ MemAt(cg.vars["__ptr__"]) # MemOf(at_irq[1], cg.vars["__ptr__"])

\* value & 0xFFFF_FFFF of data_push at the full width of the machine word, as
\* the pair of its 16-bit halves (high, low)
Word32(value) == <<(value \div 65536) % 65536, value % 65536>>

\* the machine is about to execute the PUSHI generated for the literal of
\* i = v;  which is the first instruction of main
AtLitPush ==
    /\ prog \in LitSources
    /\ AtStep("PUSHI", 0)
    /\ last_pc = DEFAULT_NUM_VECTORS

\* the literal of the program i = v;
LitValue == MainBody(prog)[1].expr.value

\* C40: running the decoded binary is equivalent to running the instruction
\* list the generator built: for every IntLit(v) with 0 <= v < 2^24 the PUSHI
\* generated for it pushes the same 32-bit word, namely v, whether the
\* machine executes the list (code) or decode(encode(list)) (imem).
C40_SameWordPushed ==
    AtLitPush =>
        /\ Word32(code[last_pc + 1].arg) = Word32(LitValue)
        /\ Word32(Arg) = Word32(code[last_pc + 1].arg)

\* C40 below the sign bit of the argument field: for 0 <= v < 2^23 both push v
C40_SameWordBelowSignBit ==
    (AtLitPush /\ LitValue < ArgSignBit) =>
        /\ Word32(code[last_pc + 1].arg) = Word32(LitValue)
        /\ Word32(Arg) = Word32(LitValue)

\* every other instruction of a loaded image is the instruction of the list
C40_OtherInstructionsSame ==
    \A i \in 1..Len(imem) :
        (i <= Len(code) /\ ~(code[i].opcode = "PUSHI" /\ code[i].arg >= ArgSignBit))
            => imem[i] = code[i]

\* the PUSHI of i = 8388608; from the binary pushes 0xFF800000
C40_SignExtendedLiteral ==
    /\ AtLitPush
    /\ LitValue = ArgSignBit
    /\ code[last_pc + 1].arg = ArgSignBit
    /\ Arg = -ArgSignBit
    /\ Word32(Arg) = <<65408, 0>>
    /\ Word32(LitValue) = <<128, 0>>

\* the PUSHI of i = 8388607; pushes 8388607 from the list and from the binary
C40_LargestPositiveLiteral ==
    /\ AtLitPush
    /\ LitValue = ArgSignBit - 1
    /\ Arg = LitValue

====
